---- MODULE Spec2Model ----
(***************************************************************************)
(* gpu-curtains: the scene stacks (Scene), the meshes that register in     *)
(* them (MeshBaseMixin), their render materials, the pipeline entries the  *)
(* materials compile, and the per-frame traversal that draws them.         *)
(***************************************************************************)
EXTENDS Integers, Sequences, FiniteSets, TLC

\* ---------------------------------------------------------------- bounds

\* Number of meshes ever constructed in the scene and depth specifications.
MaxMeshes == 3

\* Number of meshes and shader passes ever constructed in the frame specification.
MaxFrameMeshes == 3

\* Number of meshes ever constructed in the flush specification.
MaxFlushMeshes == 2

\* Meshes and shader passes of the context specification.
MaxContextMeshes == 3

\* Meshes of the render target specification.
MaxTargetMeshes == 2

\* The meshes constructed when textures are shared and meshes removed.
MaxResourceMeshes == 3

\* The textures a material can hold.
MaxTextures == 2

\* The Sampler objects constructed.
MaxSamplers == 4

\* The meshes constructed when objects are rendered once.
MaxOnceMeshes == 2

\* The objects handed to one renderOnce.
MaxOnceObjects == 2

\* The meshes constructed when setters are misused.
MaxMisuseMeshes == 2

\* The DOM meshes constructed.
MaxDOMMeshes == 2

\* The meshes constructed when meshes are removed.
MaxRemovalMeshes == 3

\* The meshes constructed when the order of the partitions is observed.
MaxOrderMeshes == 3

\* The meshes constructed when bind groups are created, and the inputs bind
\* groups of a material.
MaxBindGroupMeshes == 2
MaxInputsBindGroups == 2

\* The objects constructed when the passes of a frame are observed.
MaxPassMeshes == 3

\* The objects constructed when the main pass of a frame is observed.
MaxMainPassMeshes == 4

\* The meshes constructed when pipelines are compiled and flushed.
MaxPipelineMeshes == 2

\* The images, videos and canvases of the element of a DOM mesh.
MaxSources == 2

\* ---------------------------------------------------------------- inputs

RenderOrders == {0, 10}
Depths == {1, 3, 5}
Shaders == {"s1", "s2"}

\* Constructor parameters of the meshes of the scene specification.
SceneMeshParams ==
  [type : {"Mesh"}, transparent : BOOLEAN, useProjection : BOOLEAN,
   renderOrder : RenderOrders, z : {1}, shader : Shaders, useAsync : {FALSE}]

\* Constructor parameters of the meshes of the depth specification: the
\* transparent meshes, whose documentPosition.z the scene reads.
DepthMeshParams ==
  [type : {"Mesh"}, transparent : {TRUE}, useProjection : BOOLEAN,
   renderOrder : RenderOrders, z : Depths, shader : {"s1"}, useAsync : {FALSE}]

\* Constructor parameters of the frame specification: opaque unprojected meshes
\* and shader passes, with a shader the device compiles or one it rejects,
\* compiled synchronously or asynchronously.
FrameMeshParams ==
  [type : {"Mesh", "ShaderPass"}, transparent : {FALSE}, useProjection : {FALSE},
   renderOrder : {0}, z : {1}, shader : Shaders \cup {"bad"}, useAsync : BOOLEAN]

\* Constructor parameters of the flush specification: opaque unprojected
\* meshes whose shaders compile, synchronously or asynchronously.
FlushMeshParams ==
  [type : {"Mesh"}, transparent : {FALSE}, useProjection : {FALSE},
   renderOrder : {0}, z : {1}, shader : Shaders, useAsync : BOOLEAN]

\* The render targets of the application, in the order it registered them.
RenderTargets == {1, 2}

\* Constructor parameters of the render target specification: meshes with a
\* render target or with none.
TargetMeshParams ==
  [type : {"Mesh"}, transparent : BOOLEAN, useProjection : {FALSE},
   renderOrder : {0}, z : {1}, shader : Shaders, useAsync : {FALSE},
   renderTarget : {0} \cup RenderTargets]

\* Constructor parameters of the context specification: meshes of every
\* partition and shader passes.
ContextMeshParams ==
  [type : {"Mesh", "ShaderPass"}, transparent : BOOLEAN, useProjection : BOOLEAN,
   renderOrder : {0}, z : {1}, shader : {"s1"}, useAsync : {FALSE}]

\* The sample counts an application sets with setRenderingOptions.
SampleCounts == {1, 4}

\* The hooks of a mesh in which an application callback can throw.
Hooks == {"onBeforeRender", "onRender"}

VARIABLES
  mesh,             \* mesh[i]: the i-th constructed MeshBase
  materials,        \* materials[i]: the RenderMaterial of mesh i
  pipelineEntries,  \* the pipeline manager's entries
  meshes,           \* renderer.meshes
  stacks,           \* scene.stacks
  rendererReady,    \* GPURenderer.ready
  trace,            \* the last call and the commands it issued
  watch,            \* watch[i]: the flushes material i ran since its texture changed kind
  deviceManager     \* the device manager: whether it has a device, its samplers, the current pipeline of its pipeline manager

vars == <<mesh, materials, pipelineEntries, meshes, stacks, rendererReady, trace, watch,
          deviceManager>>

\* ---------------------------------------------------------------- sequences

\* Array.prototype.filter on uuid: the members other than m, order kept.
Without(s, m) == SelectSeq(s, LAMBDA x : x # m)

\* Array.prototype.splice(at, 0, x): x inserted so that it has 0-based index at.
Splice(s, at, x) == SubSeq(s, 1, at) \o <<x>> \o SubSeq(s, at + 1, Len(s))

Occurrences(s, x) == Cardinality({i \in 1..Len(s) : s[i] = x})

IndexIn(s, x) == CHOOSE i \in 1..Len(s) : s[i] = x

\* One step of a stable insertion sort: x goes after every member whose key
\* is not larger than its own.
InsertSorted(t, x, key) ==
  LET p == Cardinality({i \in 1..Len(t) : key[t[i]] <= key[x]})
  IN Splice(t, p, x)

\* Array.prototype.sort with the comparator (a, b) => key[a] - key[b]: stable.
RECURSIVE SortByKey(_, _)
SortByKey(s, key) ==
  IF s = <<>> THEN <<>>
  ELSE InsertSorted(SortByKey(SubSeq(s, 1, Len(s) - 1), key), s[Len(s)], key)


\* ---------------------------------------------------------------- commands

\* A call on the device, a command encoder or a pass, issued for mesh m
\* (0: for no mesh in particular).
Cmd(op, m) == [op |-> op, mesh |-> m]

\* A call of flushPipelineEntry by the material of mesh m, with the method it
\* was called from and the status the entry had when it was called.
FlushCmd(m, from, status) ==
  [op |-> "flushPipelineEntry", mesh |-> m, from |-> from, status |-> status]

\* What a call that is no frame and flushes nothing leaves behind.
NoCall == [name |-> "none", ready |-> FALSE, threw |-> FALSE, cmds |-> <<>>]

CountCmds(cmds, op, m) ==
  Cardinality({i \in 1..Len(cmds) : cmds[i].op = op /\ cmds[i].mesh = m})

Issued(cmds, op) == \E i \in 1..Len(cmds) : cmds[i].op = op

\* ---------------------------------------------------------------- pipeline entries

\* Default sample count of a mesh: the one of the renderer's render pass.
RendererSampleCount == 1

NullPipeline == "null"

\* GPUDevice.createRenderPipeline: the device rejects the shader "bad".
DeviceCompiles(entry) == entry.sig.shader # "bad"

IdleStatus == [compiling |-> FALSE, compiled |-> FALSE, error |-> FALSE]

\* PipelineEntry.ready: compiled, not compiling, no error.
PipelineEntryReady(entry) ==
  ~entry.status.compiling /\ entry.status.compiled /\ ~entry.status.error

\* The same without the test of the compiling flag.
canCompileWhileCompiling(entry) == ~entry.status.compiled /\ ~entry.status.error

\* PipelineEntry.canCompile: idle.
canCompile(entry) ==
  ~entry.status.compiling /\ ~entry.status.compiled /\ ~entry.status.error

\* The same with the error neither recorded nor thrown.
createRenderPipelineSwallowed(entry, device) == [entry |-> entry, thrown |-> FALSE]

\* RenderPipelineEntry.createRenderPipeline: nothing without the shader
\* modules, which GPURenderer.createShaderModule returns only when there is a
\* device; otherwise the pipeline on success, and on failure the error is
\* recorded and thrown.
createRenderPipelineSync(entry, device) ==
  IF ~device THEN [entry |-> entry, thrown |-> FALSE]
  ELSE IF DeviceCompiles(entry)
    THEN [entry |-> [entry EXCEPT !.pipeline = "pipeline"], thrown |-> FALSE]
    ELSE [entry |-> [entry EXCEPT !.status.error = TRUE], thrown |-> TRUE]

\* RenderPipelineEntry.createRenderPipelineAsync once the device has answered.
createRenderPipelineAsync(entry) ==
  IF DeviceCompiles(entry)
    THEN [entry EXCEPT !.pipeline = "pipeline", !.pending = @ - 1,
                       !.status = [compiling |-> FALSE, compiled |-> TRUE, error |-> FALSE]]
    ELSE [entry EXCEPT !.pending = @ - 1, !.status.error = TRUE]

\* RenderPipelineEntry.createPipelineDescriptor: nothing without the shader
\* modules; otherwise the descriptor is written from the options the entry
\* has at that moment.
createPipelineDescriptor(entry, device) ==
  IF ~device THEN entry ELSE [entry EXCEPT !.descriptor = <<entry.options>>]

\* RenderPipelineEntry.compilePipelineEntry up to its first await: the base
\* class marks the entry compiling and writes the descriptor; the
\* asynchronous path leaves a request with the device unless the shader
\* modules are missing, the synchronous one creates the pipeline at once, a
\* thrown error rejects the promise the method returns, and without one the
\* status is set to compiled.
compilePipelineEntry(entry, device) ==
  LET compiling == createPipelineDescriptor([entry EXCEPT !.status.compiling = TRUE], device)
      made == createRenderPipelineSync(compiling, device)
  IN IF compiling.useAsync
       THEN [compiling EXCEPT !.pending = IF device THEN @ + 1 ELSE @]
     ELSE IF made.thrown THEN made.entry
     ELSE [made.entry EXCEPT !.status = [compiling |-> FALSE, compiled |-> TRUE, error |-> FALSE]]

\* Whether the promise compilePipelineEntry returns is rejected at once: the
\* synchronous creation threw, throwError having reported the error.
compileRejected(entry, device) ==
  ~entry.useAsync /\ createRenderPipelineSync(entry, device).thrown

\* PipelineEntry.flushPipelineEntry: the compiled pipeline is discarded, the
\* bind groups are attached again and the entry recompiles.
flushPipelineEntry(entry, bindGroups, device) ==
  compilePipelineEntry([entry EXCEPT !.status = IdleStatus, !.pipeline = NullPipeline,
                                     !.bindGroups = bindGroups], device)

\* RenderPipelineEntry.setPipelineEntryProperties.
setPipelineEntryProperties(entry, bindGroups) == [entry EXCEPT !.bindGroups = bindGroups]

\* ---------------------------------------------------------------- pipeline manager

\* What identifies a pipeline entry: shader source and rendering options.
Signature(params) == [shader |-> params.shader, rendering |-> params.rendering]

\* The descriptor of an entry before createPipelineDescriptor has written it.
NullDescriptor == <<>>

\* new RenderPipelineEntry(parameters): no pipeline, no descriptor, idle.
NewPipelineEntry(params) ==
  [sig |-> Signature(params), options |-> params.rendering, useAsync |-> params.useAsync,
   status |-> IdleStatus, pipeline |-> NullPipeline, pending |-> 0,
   bindGroups |-> <<>>, descriptor |-> NullDescriptor]

isSameRenderPipeline(entries, params) ==
  {i \in 1..Len(entries) : entries[i].sig = Signature(params)}

\* PipelineManager.createRenderPipeline: the entries after the call and the
\* index of the entry handed out.
createRenderPipeline(entries, params) ==
  LET same == isSameRenderPipeline(entries, params)
  IN IF same # {}
       THEN [entries |-> entries, index |-> CHOOSE i \in same : TRUE]
       ELSE [entries |-> Append(entries, NewPipelineEntry(params)),
             index |-> Len(entries) + 1]

\* PipelineManager.setCurrentPipeline: nothing when the entry is the one the
\* manager has as current, else pass.setPipeline.
setCurrentPipeline(w, entry, m) ==
  IF w.current = entry THEN w
  ELSE [w EXCEPT !.current = entry, !.cmds = Append(w.cmds, Cmd("setPipeline", m))]

\* PipelineManager.resetCurrentPipeline with the current pipeline kept.
resetCurrentPipelineKept(w) ==
  [w EXCEPT !.cmds = Append(w.cmds, Cmd("resetCurrentPipeline", 0))]

\* PipelineManager.resetCurrentPipeline: the manager has no current pipeline.
resetCurrentPipeline(w) ==
  [w EXCEPT !.current = 0, !.cmds = Append(w.cmds, Cmd("resetCurrentPipeline", 0))]

\* ---------------------------------------------------------------- textures

\* Texture constructor: no source; the renderer gives it a placeholder GPU
\* texture and a sampler as soon as it is added.
NewTexture ==
  [sourceType |-> "empty", texture |-> "placeholder", sampler |-> TRUE,
   shouldUpdate |-> FALSE, uuid |-> 0, destroyed |-> FALSE]

\* The Texture constructor when the renderer has no device yet: texture and
\* sampler are still null.
NullTexture == [NewTexture EXCEPT !.texture = "none", !.sampler = FALSE]

\* new Texture(renderer, options) by the application, to be added to several
\* meshes: uuid tells the object apart, the records that bear it are one
\* object.
SharedTexture(uuid) == [NewTexture EXCEPT !.uuid = uuid]

\* Texture.createTexture and createSampler once the device exists.
TextureCreateResources(texture) ==
  IF texture.texture = "none"
    THEN [texture EXCEPT !.texture = "placeholder", !.sampler = TRUE]
    ELSE texture

\* Texture.destroy: the GPU texture is destroyed.
TextureDestroy(texture) == [texture EXCEPT !.destroyed = TRUE]

\* The binding type Texture.setBindings gives the texture binding.
bindingType(texture) ==
  IF texture.sourceType = "externalVideo" THEN "externalTexture" ELSE "texture"

\* Texture.uploadVideoTexture: a new external texture is imported.
uploadVideoTexture(texture) == [texture EXCEPT !.texture = "external", !.shouldUpdate = FALSE]

\* ---------------------------------------------------------------- samplers

\* No GPU sampler: what device?.createSampler returns without a device.
NullSampler == 0

\* new Sampler(renderer, options) before its GPU sampler is asked for.
NewSampler(options) == [options |-> options, sampler |-> NullSampler]

\* The registered samplers with the options of the given one and a GPU sampler.
ExistingSamplers(samplers, sampler) ==
  {i \in DOMAIN samplers : samplers[i].options = sampler.options
                             /\ samplers[i].sampler # NullSampler}

\* GPURenderer.createSampler: the GPU sampler of a registered Sampler with the
\* same options when one has a GPU sampler, else a new one from the device,
\* the Sampler being registered. The samplers registered and the GPU sampler
\* returned.
createSampler(samplers, sampler, device) ==
  LET existing == ExistingSamplers(samplers, sampler)
  IN IF existing # {}
       THEN [samplers |-> samplers,
             sampler |-> samplers[CHOOSE i \in existing : \A j \in existing : i <= j].sampler]
       ELSE [samplers |-> Append(samplers, sampler),
             sampler |-> IF device THEN Len(samplers) + 1 ELSE NullSampler]

\* Sampler.createSampler, called by the constructor: the Sampler keeps the GPU
\* sampler returned; registered, it is the object the registry holds.
SamplerCreateSampler(samplers, sampler, device) ==
  LET created == createSampler(samplers, sampler, device)
  IN [samplers |-> [i \in DOMAIN created.samplers |->
                      IF i > Len(samplers)
                        THEN [created.samplers[i] EXCEPT !.sampler = created.sampler]
                        ELSE created.samplers[i]],
      sampler |-> created.sampler]

\* ---------------------------------------------------------------- bind groups

\* TextureBindGroup constructor (Material.setTextures).
NewTextureBindGroup ==
  [bindGroup |-> FALSE, index |-> 0, needsReset |-> FALSE, needsPipelineFlush |-> FALSE,
   shouldResetBindGroup |-> FALSE, externalTexturesIndex |-> {}, layout |-> <<>>]

\* The same with no test of the textures and of the samplers.
shouldCreateBindGroupUnchecked(group, textures) ==
  ~group.bindGroup /\ Len(textures) > 0

\* TextureBindGroup.shouldCreateBindGroup: not created yet, with bindings (the
\* textures bring them all), and every texture has its GPU texture and its
\* sampler.
shouldCreateBindGroup(group, textures) ==
  /\ ~group.bindGroup
  /\ Len(textures) > 0
  /\ \A i \in 1..Len(textures) : textures[i].texture # "none" /\ textures[i].sampler

\* BindGroup.setIndex and createBindGroup: the layout entries take the
\* binding types the textures have now.
createBindGroup(group, textures, index) ==
  [group EXCEPT !.bindGroup = TRUE, !.index = index,
                !.layout = [i \in 1..Len(textures) |-> bindingType(textures[i])]]

\* The same asking for nothing, whatever the texture.
shouldUpdateVideoTextureBindGroupLayoutNever(group, textureIndex) ==
  [group |-> group, update |-> FALSE]

\* The same without the test of externalTexturesIndex: every upload asks for
\* a flush.
shouldUpdateVideoTextureBindGroupLayoutAtEachUpload(group, textureIndex) ==
  [group |-> [group EXCEPT !.externalTexturesIndex = @ \cup {textureIndex},
                           !.needsPipelineFlush = TRUE],
   update |-> TRUE]

\* TextureBindGroup.shouldUpdateVideoTextureBindGroupLayout: the group after
\* the call and the value returned.
shouldUpdateVideoTextureBindGroupLayout(group, textureIndex) ==
  IF textureIndex \in group.externalTexturesIndex
    THEN [group |-> group, update |-> FALSE]
    ELSE [group |-> [group EXCEPT !.externalTexturesIndex = @ \cup {textureIndex},
                                  !.needsPipelineFlush = TRUE],
          update |-> TRUE]

\* TextureBindGroup.updateVideoTextureBindGroupLayout: the layout entry of the
\* texture is patched, when the layout has one.
updateVideoTextureBindGroupLayout(group, textures, textureIndex) ==
  IF textureIndex \in DOMAIN group.layout
    THEN [group EXCEPT !.layout[textureIndex] = bindingType(textures[textureIndex])]
    ELSE group

\* SamplerBinding.resource (setter): an existing sampler replaced by another
\* asks for the bind group to be reset.
SamplerBindingSetResource(group, texture) ==
  IF texture.sampler THEN [group EXCEPT !.shouldResetBindGroup = TRUE] ELSE group

\* BindGroup.updateBindings: a binding that asked for it has the bind group
\* set again from its entries.
updateBindings(w, m) ==
  IF w.materials[m].texturesBindGroup.shouldResetBindGroup
    THEN [w EXCEPT !.materials[m].texturesBindGroup.shouldResetBindGroup = FALSE,
                   !.cmds = Append(w.cmds, Cmd("createBindGroup", m))]
    ELSE w

\* ---------------------------------------------------------------- materials

\* The rendering options of a mesh: the constructor parameters left once the
\* shaders, the label and the bindings are taken out.
RenderingOptions(p) ==
  [useProjection |-> p.useProjection, transparent |-> p.transparent,
   sampleCount |-> RendererSampleCount]

\* The same with the label of mesh i told apart in the rendering options.
RenderMaterialPipelineParamsLabelled(i, p) ==
  [label |-> i, shader |-> p.shader,
   rendering |-> [RenderingOptions(p) EXCEPT !.sampleCount = RendererSampleCount + i],
   useAsync |-> p.useAsync]

\* The parameters the RenderMaterial constructor hands to the pipeline
\* manager: the label, the shaders, useAsync and the rendering options.
RenderMaterialPipelineParams(i, p) ==
  [label |-> i, shader |-> p.shader, rendering |-> RenderingOptions(p),
   useAsync |-> p.useAsync]

\* new BindGroup (Material.setBindings): not created, with the bindings of
\* the uniforms and storages it was made for.
NewBindGroup == [bindGroup |-> FALSE, index |-> 0, bindings |-> 1]

\* BindGroup.shouldCreateBindGroup: not created yet, with bindings.
BindGroupShouldCreateBindGroup(group) == ~group.bindGroup /\ group.bindings > 0

\* The members of material.bindGroups: the textures bind group, or the
\* inputs bind group at a position of material.inputsBindGroups.
TexturesBindGroupRef == [kind |-> "textures", at |-> 0]
InputsBindGroupRef(i) == [kind |-> "inputs", at |-> i]

\* new RenderMaterial(renderer, parameters), given the entry it obtained.
NewRenderMaterial(p, entry) ==
  [entry |-> entry, shader |-> p.shader, rendering |-> RenderingOptions(p),
   attributes |-> FALSE, bindGroups |-> <<>>,
   texturesBindGroup |-> NewTextureBindGroup,
   inputsBindGroups |-> [i \in 1..(IF "inputsBindGroups" \in DOMAIN p
                                     THEN p.inputsBindGroups ELSE 0) |-> NewBindGroup],
   textures |-> IF "textures" \in DOMAIN p THEN p.textures ELSE <<NewTexture>>]

\* Material.ready with no test of the pipeline.
MaterialReadyWithoutPipeline(w, m) == w.materials[m].entry \in DOMAIN w.entries

\* Material.ready: the pipeline entry has a pipeline.
MaterialReady(w, m) == w.entries[w.materials[m].entry].pipeline # NullPipeline

\* The loop of RenderMaterial.createBindGroups over the inputs bind groups,
\* from the one at position i: each one that can be created takes the index
\* after those of the bind groups created so far and joins them.
RECURSIVE createInputsBindGroups(_, _, _)
createInputsBindGroups(mat, bindGroupStartIndex, i) ==
  IF i > Len(mat.inputsBindGroups) THEN mat
  ELSE createInputsBindGroups(
         IF BindGroupShouldCreateBindGroup(mat.inputsBindGroups[i])
           THEN [mat EXCEPT !.inputsBindGroups[i] =
                              [@ EXCEPT !.bindGroup = TRUE,
                                        !.index = Len(mat.bindGroups) + bindGroupStartIndex],
                            !.bindGroups = Append(@, InputsBindGroupRef(i))]
           ELSE mat,
         bindGroupStartIndex, i + 1)

\* RenderMaterial.createBindGroups under another reading: every bind group
\* takes its position in the list as its index, whether the camera bind group
\* comes first or not.
createBindGroupsFromZero(mat) ==
  LET withTextures ==
        IF shouldCreateBindGroup(mat.texturesBindGroup, mat.textures)
          THEN [mat EXCEPT !.texturesBindGroup =
                             createBindGroup(@, mat.textures, Len(mat.bindGroups)),
                           !.bindGroups = Append(@, TexturesBindGroupRef)]
          ELSE mat
  IN createInputsBindGroups(withTextures, 0, 1)

\* RenderMaterial.createBindGroups: the textures bind group first, then the
\* inputs bind groups; each one that can be created takes the next index
\* after the camera bind group's and joins material.bindGroups.
createBindGroups(mat) ==
  LET bindGroupStartIndex == IF mat.rendering.useProjection THEN 1 ELSE 0
      withTextures ==
        IF shouldCreateBindGroup(mat.texturesBindGroup, mat.textures)
          THEN [mat EXCEPT !.texturesBindGroup =
                             createBindGroup(@, mat.textures,
                                             Len(mat.bindGroups) + bindGroupStartIndex),
                           !.bindGroups = Append(@, TexturesBindGroupRef)]
          ELSE mat
  IN createInputsBindGroups(withTextures, bindGroupStartIndex, 1)

\* Material.setMaterial: the bind groups are created until all of them are.
setMaterial(mat) ==
  LET bindGroupsReady == Len(mat.bindGroups) = Len(mat.inputsBindGroups) + 1
  IN IF ~bindGroupsReady THEN createBindGroups(mat) ELSE mat

\* RenderMaterial.compileMaterial: the bind groups, then the pipeline entry
\* when the attributes are known and the entry is idle.
compileMaterial(w, m) ==
  LET compile(mat) ==
        IF mat.attributes /\ canCompile(w.entries[mat.entry])
          THEN [w EXCEPT !.materials[m] = mat,
                         !.entries[mat.entry] =
                            compilePipelineEntry(setPipelineEntryProperties(@, mat.bindGroups),
                                                 w.device),
                         !.cmds = IF compileRejected(w.entries[mat.entry], w.device)
                                    THEN Append(@, Cmd("throwError", m)) ELSE @]
          ELSE [w EXCEPT !.materials[m] = mat]
  IN compile(setMaterial(w.materials[m]))

\* setRenderingOptions without the test of newProperties: a ready entry is
\* flushed whatever the options given.
setRenderingOptionsAlwaysFlushing(w, m, sampleCount) ==
  LET mat == w.materials[m]
      e == mat.entry
      rendering == [mat.rendering EXCEPT !.sampleCount = sampleCount]
      w1 == [w EXCEPT !.materials[m].rendering = rendering, !.entries[e].options = rendering]
  IN IF PipelineEntryReady(w.entries[e])
       THEN [w1 EXCEPT !.entries[e] = flushPipelineEntry(@, mat.bindGroups, w.device),
                       !.cmds = Append(w.cmds, FlushCmd(m, "setRenderingOptions", w.entries[e].status))]
       ELSE w1

\* RenderMaterial.setRenderingOptions({ sampleCount }): the options of the
\* material and of its entry take the value; a ready entry is flushed when the
\* value is new.
setRenderingOptions(w, m, sampleCount) ==
  LET mat == w.materials[m]
      e == mat.entry
      newProperties == sampleCount # mat.rendering.sampleCount
      rendering == [mat.rendering EXCEPT !.sampleCount = sampleCount]
      w1 == [w EXCEPT !.materials[m].rendering = rendering, !.entries[e].options = rendering]
  IN IF PipelineEntryReady(w.entries[e]) /\ newProperties
       THEN [w1 EXCEPT !.entries[e] = flushPipelineEntry(@, mat.bindGroups, w.device),
                       !.cmds = Append(w.cmds, FlushCmd(m, "setRenderingOptions", w.entries[e].status))]
       ELSE w1

\* The body of the loop of Material.onBeforeRender over the textures of the
\* textures bind group, for the texture at textureIndex.
updateTexture(w, m, textureIndex) ==
  LET mat == w.materials[m]
      texture == mat.textures[textureIndex]
      asked == shouldUpdateVideoTextureBindGroupLayout(mat.texturesBindGroup, textureIndex)
      uploaded == [mat.textures EXCEPT ![textureIndex] = uploadVideoTexture(texture)]
  IN IF texture.shouldUpdate /\ texture.sourceType = "externalVideo"
       THEN [w EXCEPT !.materials[m].textures = uploaded,
                      !.materials[m].texturesBindGroup =
                         IF asked.update
                           THEN updateVideoTextureBindGroupLayout(asked.group, uploaded, textureIndex)
                           ELSE asked.group,
                      !.cmds = Append(w.cmds, Cmd("importExternalTexture", m))]
       ELSE w

RECURSIVE updateTextures(_, _, _)
updateTextures(w, m, textureIndex) ==
  IF textureIndex > Len(w.materials[m].textures) THEN w
  ELSE updateTextures(updateTexture(w, m, textureIndex), m, textureIndex + 1)

\* The test of Material.updateBindGroups before it flushes.
shouldFlushWithoutReady(group, entry) == group.needsPipelineFlush

shouldFlush(group, entry) == group.needsPipelineFlush /\ PipelineEntryReady(entry)

\* The body of the loop of Material.updateBindGroups, for the textures bind
\* group.
updateBindGroup(w, m) ==
  LET mat == w.materials[m]
      e == mat.entry
      w1 == IF mat.texturesBindGroup.needsReset
              THEN [w EXCEPT !.materials[m].texturesBindGroup.needsReset = FALSE,
                             !.cmds = Append(w.cmds, Cmd("createBindGroup", m))]
              ELSE w
      w2 == IF shouldFlush(mat.texturesBindGroup, w1.entries[e])
              THEN [w1 EXCEPT !.entries[e] = flushPipelineEntry(@, mat.bindGroups, w.device),
                              !.materials[m].texturesBindGroup.needsPipelineFlush = FALSE,
                              !.cmds = Append(w1.cmds, FlushCmd(m, "updateBindGroups", w1.entries[e].status))]
              ELSE w1
  IN updateBindings(w2, m)

\* Material.updateBindGroups: over the bind groups that were created; the
\* inputs bind groups have nothing to reset in the model.
updateBindGroups(w, m) ==
  IF \A k \in 1..Len(w.materials[m].bindGroups) :
       w.materials[m].bindGroups[k] # TexturesBindGroupRef
    THEN w ELSE updateBindGroup(w, m)

\* Material.onBeforeRender, the render material compiling as its first step.
MaterialOnBeforeRender(w, m) ==
  updateBindGroups(updateTextures(compileMaterial(w, m), m, 1), m)

RECURSIVE setBindGroups(_, _, _)
setBindGroups(w, m, k) ==
  IF k > Len(w.materials[m].bindGroups) THEN w
  ELSE setBindGroups([w EXCEPT !.cmds = Append(w.cmds, Cmd("setBindGroup", m))], m, k + 1)

\* Material.render: the pipeline is made current and the bind groups are set.
MaterialRender(w, m) ==
  IF ~w.rendererReady THEN w
  ELSE IF ~MaterialReady(w, m) THEN w
  ELSE setBindGroups(setCurrentPipeline(w, w.materials[m].entry, m), m, 1)

\* Material.addTexture: the texture joins the textures of the material and,
\* used in the shaders, those of the textures bind group.
MaterialAddTexture(mat, texture) == [mat EXCEPT !.textures = Append(@, texture)]

\* Material.destroyBindGroups: every bind group is destroyed and forgotten.
destroyBindGroups(mat) ==
  [mat EXCEPT !.bindGroups = <<>>, !.texturesBindGroup.bindGroup = FALSE,
              !.inputsBindGroups = <<>>]

\* Material.destroyTextures of the material of mesh m: every texture of the
\* material is destroyed, whoever else holds it, and forgotten.
destroyTextures(mats, m) ==
  LET destroyed == {mats[m].textures[i].uuid : i \in DOMAIN mats[m].textures} \ {0}
      seen(textures) ==
        [i \in DOMAIN textures |->
           IF textures[i].uuid \in destroyed THEN TextureDestroy(textures[i]) ELSE textures[i]]
  IN [n \in DOMAIN mats |->
        IF n = m THEN [mats[n] EXCEPT !.textures = <<>>]
        ELSE [mats[n] EXCEPT !.textures = seen(@)]]

\* Material.destroy.
MaterialDestroy(mats, m) ==
  destroyTextures([mats EXCEPT ![m] = destroyBindGroups(@)], m)

\* ---------------------------------------------------------------- scene

EmptyStacks ==
  [unprojected |-> [opaque |-> <<>>, transparent |-> <<>>,
                    pingPongPlanes |-> <<>>, shaderPasses |-> <<>>],
   projected |-> [opaque |-> <<>>, transparent |-> <<>>]]

ProjectionName(mats, m) ==
  IF mats[m].rendering.useProjection THEN "projected" ELSE "unprojected"

TransparencyName(ms, m) == IF ms[m].transparent THEN "transparent" ELSE "opaque"

\* The last member of similar that shares the pipeline entry of m, plus one
\* (0 when there is none): the 0-based position m is spliced at.
SiblingMeshIndex(similar, mats, m) ==
  LET same == {i \in 1..Len(similar) : mats[similar[i]].entry = mats[m].entry}
  IN IF same = {} THEN 0 ELSE CHOOSE i \in same : \A j \in same : j <= i

\* The transparent sort with the comparator a.documentPosition.z - b.documentPosition.z.
DepthSortAscending(similar, ms) == SortByKey(similar, [i \in DOMAIN ms |-> ms[i].z])

\* The transparent sort: the comparator is b.documentPosition.z - a.documentPosition.z.
DepthSort(similar, ms) == SortByKey(similar, [i \in DOMAIN ms |-> 0 - ms[i].z])

\* The last sort: the comparator is b.renderOrder - a.renderOrder.
RenderOrderSort(similar, ms) ==
  SortByKey(similar, [i \in DOMAIN ms |-> 0 - ms[i].renderOrder])

\* Scene.addMesh without its sort by index: the mesh stays where it was
\* spliced, next to the last mesh that shares its pipeline entry.
SceneAddMeshSpliced(st, rmeshes, ms, mats, m) ==
  LET similarMeshes == SelectSeq(rmeshes, LAMBDA x : ms[x].transparent = ms[m].transparent /\ x # m)
      spliced == Splice(similarMeshes, SiblingMeshIndex(similarMeshes, mats, m), m)
      byDepth == IF ms[m].transparent THEN DepthSort(spliced, ms) ELSE spliced
  IN [st EXCEPT ![ProjectionName(mats, m)][TransparencyName(ms, m)] = RenderOrderSort(byDepth, ms)]

\* Scene.addMesh: the stack of m rebuilt from renderer.meshes.
SceneAddMesh(st, rmeshes, ms, mats, m) ==
  LET similarMeshes == SelectSeq(rmeshes, LAMBDA x : ms[x].transparent = ms[m].transparent /\ x # m)
      spliced == Splice(similarMeshes, SiblingMeshIndex(similarMeshes, mats, m), m)
      byIndex == SortByKey(spliced, [i \in DOMAIN ms |-> i])
      byDepth == IF ms[m].transparent THEN DepthSort(byIndex, ms) ELSE byIndex
      byOrder == RenderOrderSort(byDepth, ms)
      proj == ProjectionName(mats, m)
      kind == TransparencyName(ms, m)
  IN [st EXCEPT ![proj][kind] = byOrder]

\* Scene.removeMesh rebuilding the stack in the order of construction of
\* its members.
SceneRemoveMeshRebuilt(st, ms, mats, m) ==
  LET proj == ProjectionName(mats, m)
      kind == TransparencyName(ms, m)
  IN [st EXCEPT ![proj][kind] = SortByKey(Without(st[proj][kind], m), [i \in DOMAIN ms |-> i])]

\* Scene.removeMesh: m filtered out of the stack its flags select.
SceneRemoveMesh(st, ms, mats, m) ==
  LET proj == ProjectionName(mats, m)
      kind == TransparencyName(ms, m)
  IN [st EXCEPT ![proj][kind] = Without(st[proj][kind], m)]

\* The same with the pass put in front of the list.
SceneAddShaderPassFirst(st, ms, m) ==
  [st EXCEPT !.unprojected.shaderPasses = RenderOrderSort(<<m>> \o @, ms)]

\* Scene.addShaderPass: pushed, then sorted by decreasing render order.
SceneAddShaderPass(st, ms, m) ==
  [st EXCEPT !.unprojected.shaderPasses = RenderOrderSort(Append(@, m), ms)]

\* Scene.addPingPongPlane: pushed, then sorted by decreasing render order.
SceneAddPingPongPlane(st, ms, m) ==
  [st EXCEPT !.unprojected.pingPongPlanes = RenderOrderSort(Append(@, m), ms)]

\* ---------------------------------------------------------------- meshes

\* The render target of a mesh that has none (null).
NoRenderTarget == 0

\* What an application hands to setRenderTarget other than null or one of its
\* render targets: undefined (or another falsy value), or an object that is
\* not a RenderTarget.
UndefinedRenderTarget == -1
NotARenderTarget == -2

\* renderTarget as a condition: null and undefined are falsy, objects truthy.
Truthy(renderTarget) == renderTarget \notin {NoRenderTarget, UndefinedRenderTarget}

\* renderTarget.type === 'RenderTarget'.
IsRenderTarget(renderTarget) == renderTarget \in RenderTargets

\* The sample count of the render pass of render target rt.
RenderTargetSampleCount(rt) == IF rt = 2 THEN 4 ELSE 1

\* new MeshBase: the fields of the mesh the scene and the frame read; the
\* render target is the one of the parameters, null when there is none.
NewMesh(p) ==
  [type |-> p.type, transparent |-> p.transparent, renderOrder |-> p.renderOrder,
   z |-> p.z, autoRender |-> IF "autoRender" \in DOMAIN p THEN p.autoRender ELSE TRUE,
   visible |-> IF "visible" \in DOMAIN p THEN p.visible ELSE TRUE,
   ready |-> FALSE, buffers |-> FALSE,
   renderTarget |-> IF "renderTarget" \in DOMAIN p THEN p.renderTarget ELSE NoRenderTarget]

\* MeshBase.addToScene: the mesh joins renderer.meshes, its material takes the
\* sample count of the render pass of its render target or of the renderer,
\* and the scene adds it.
MeshAddToScene(w, st, rmeshes, m) ==
  LET w1 == setRenderingOptions(w, m, IF Truthy(w.mesh[m].renderTarget)
                                        THEN RenderTargetSampleCount(w.mesh[m].renderTarget)
                                        ELSE RendererSampleCount)
      pushed == Append(rmeshes, m)
  IN [w |-> w1, meshes |-> pushed,
      stacks |-> IF w.mesh[m].autoRender
                   THEN SceneAddMesh(st, pushed, w.mesh, w1.materials, m) ELSE st]

\* ShaderPass.addToScene: the pass joins the shader passes of the scene.
ShaderPassAddToScene(w, st, rmeshes, m) ==
  [w |-> w, meshes |-> rmeshes,
   stacks |-> IF w.mesh[m].autoRender THEN SceneAddShaderPass(st, w.mesh, m) ELSE st]

\* PingPongPlane.addToScene: the plane joins the ping pong planes of the
\* scene.
PingPongPlaneAddToScene(w, st, rmeshes, m) ==
  [w |-> w, meshes |-> rmeshes,
   stacks |-> IF w.mesh[m].autoRender THEN SceneAddPingPongPlane(st, w.mesh, m) ELSE st]

\* this.addToScene(), on the class of the object.
addToScene(w, st, rmeshes, m) ==
  IF w.mesh[m].type = "ShaderPass" THEN ShaderPassAddToScene(w, st, rmeshes, m)
  ELSE IF w.mesh[m].type = "PingPongPlane" THEN PingPongPlaneAddToScene(w, st, rmeshes, m)
  ELSE MeshAddToScene(w, st, rmeshes, m)

\* MeshBase.removeFromScene.
MeshRemoveFromScene(st, rmeshes, ms, mats, m) ==
  [meshes |-> Without(rmeshes, m),
   stacks |-> IF ms[m].autoRender THEN SceneRemoveMesh(st, ms, mats, m) ELSE st]

\* MeshBase.destroy with the pipeline entry of the material flushed as well.
MeshDestroyWithPipelineEntry(w, m) ==
  [w EXCEPT !.materials = MaterialDestroy(w.materials, m), !.mesh[m].buffers = FALSE,
            !.entries[w.materials[m].entry] = flushPipelineEntry(@, <<>>, w.device)]

\* MeshBase.destroy: the material is destroyed, the buffers of the geometry
\* leave the renderer and the geometry is destroyed.
MeshDestroy(w, m) ==
  [w EXCEPT !.materials = MaterialDestroy(w.materials, m), !.mesh[m].buffers = FALSE]

\* MeshBase.remove: the mesh leaves the scene and is destroyed.
MeshRemove(w, st, rmeshes, m) ==
  LET removed == MeshRemoveFromScene(st, rmeshes, w.mesh, w.materials, m)
  IN [w |-> MeshDestroy(w, m), meshes |-> removed.meshes, stacks |-> removed.stacks]

\* MeshBase.setRenderTarget: a truthy value that is not a RenderTarget is
\* reported with throwWarning and nothing else is done; else the mesh leaves
\* the scene, takes the value and joins the scene again.
setRenderTarget(w, st, rmeshes, m, renderTarget) ==
  LET removed == MeshRemoveFromScene(st, rmeshes, w.mesh, w.materials, m)
  IN IF Truthy(renderTarget) /\ ~IsRenderTarget(renderTarget)
       THEN [w |-> [w EXCEPT !.cmds = Append(@, Cmd("throwWarning", m))],
             meshes |-> rmeshes, stacks |-> st]
       ELSE MeshAddToScene([w EXCEPT !.mesh[m].renderTarget = renderTarget],
                           removed.stacks, removed.meshes, m)

\* The types of the renderers.
RendererTypes == {"GPURenderer", "GPUCameraRenderer", "GPUCurtainsRenderer"}

\* The first line of MeshBase.setRenderer: the renderer of a GPUCurtains
\* object, else the value itself; what is kept here is its type, "null" for a
\* falsy value.
RendererOf(value) ==
  IF value.type # "null" /\ value.renderer # "null" THEN value.renderer ELSE value.type

\* MeshBase.setRenderer: a value that is no renderer is reported with
\* throwWarning and nothing else is done; else the mesh leaves the scene of its
\* renderer and joins the one of the new renderer, here the same one, which
\* therefore is not left without meshes.
setRenderer(w, st, rmeshes, m, value) ==
  LET removed == MeshRemoveFromScene(st, rmeshes, w.mesh, w.materials, m)
  IN IF RendererOf(value) \notin RendererTypes
       THEN [w |-> [w EXCEPT !.cmds = Append(@, Cmd("throwWarning", m))],
             meshes |-> rmeshes, stacks |-> st]
       ELSE MeshAddToScene(w, removed.stacks, removed.meshes, m)

\* Whether the application callback of mesh m in the given hook throws in
\* this frame.
Throws(thrower, m, hook) == thrower.mesh = m /\ thrower.hook = hook

\* Geometry.ready: the vertex and index buffers of the geometry exist.
GeometryReady(w, m) == w.mesh[m].buffers

\* MeshBase.setGeometry, the renderer being ready: the geometry buffers are
\* created and the material takes the attributes.
setGeometry(w, m) == [w EXCEPT !.mesh[m].buffers = TRUE, !.materials[m].attributes = TRUE]

\* The rendered objects of the renderer: its meshes, its shader passes and its
\* ping pong planes.
RenderedObjects(rmeshes, st) ==
  {rmeshes[i] : i \in 1..Len(rmeshes)}
    \cup {st.unprojected.shaderPasses[i] : i \in 1..Len(st.unprojected.shaderPasses)}
    \cup {st.unprojected.pingPongPlanes[i] : i \in 1..Len(st.unprojected.pingPongPlanes)}

\* Material.loseContext: the handles of the bind groups are dropped.
MaterialLoseContext(mat) ==
  [mat EXCEPT !.texturesBindGroup.bindGroup = FALSE,
              !.inputsBindGroups = [i \in DOMAIN @ |-> [@[i] EXCEPT !.bindGroup = FALSE]]]

\* Material.restoreContext: the bind groups that had been created get a
\* handle again.
MaterialRestoreContext(mat) ==
  [mat EXCEPT !.texturesBindGroup.bindGroup =
                \E k \in 1..Len(mat.bindGroups) : mat.bindGroups[k] = TexturesBindGroupRef,
              !.inputsBindGroups =
                [i \in DOMAIN @ |->
                   [@[i] EXCEPT !.bindGroup =
                      \E k \in 1..Len(mat.bindGroups) : mat.bindGroups[k] = InputsBindGroupRef(i)]]]

\* The pipeline entry of a material that loses the context: the pipeline is
\* dropped and the entry is idle again, to be compiled by a later frame.
PipelineEntryLoseContext(entry) ==
  [entry EXCEPT !.pipeline = NullPipeline, !.status = IdleStatus, !.pending = 0]

\* MeshBase.loseContext on each of the objects: the buffers of the geometry
\* are set to null, then the material loses the context.
MeshesLoseContext(w, objects) ==
  [w EXCEPT !.mesh = [m \in DOMAIN w.mesh |->
                        IF m \in objects THEN [w.mesh[m] EXCEPT !.buffers = FALSE]
                        ELSE w.mesh[m]],
            !.materials = [m \in DOMAIN w.materials |->
                             IF m \in objects THEN MaterialLoseContext(w.materials[m])
                             ELSE w.materials[m]],
            !.entries = [e \in DOMAIN w.entries |->
                           IF \E m \in objects : w.materials[m].entry = e
                             THEN PipelineEntryLoseContext(w.entries[e])
                             ELSE w.entries[e]]]

\* MeshBase.restoreContext on each of the objects: the material restores the
\* context.
MeshesRestoreContext(w, objects) ==
  [w EXCEPT !.materials = [m \in DOMAIN w.materials |->
                             IF m \in objects THEN MaterialRestoreContext(w.materials[m])
                             ELSE w.materials[m]]]

\* GPURenderer.loseContext: every rendered object loses the context; the
\* scene and the lists of the renderer are left alone.
GPURendererLoseContext(w, st, rmeshes) ==
  [w |-> MeshesLoseContext(w, RenderedObjects(rmeshes, st)), stacks |-> st, meshes |-> rmeshes]

\* The same calling setContext, which sets a new scene, in place of
\* configureContext.
GPURendererRestoreContextSetContext(w, st, rmeshes) ==
  [w |-> MeshesRestoreContext(w, RenderedObjects(rmeshes, st)),
   stacks |-> EmptyStacks, meshes |-> rmeshes]

\* GPURenderer.restoreContext: the context is configured again and every
\* rendered object restores the context.
GPURendererRestoreContext(w, st, rmeshes) ==
  [w |-> MeshesRestoreContext(w, RenderedObjects(rmeshes, st)), stacks |-> st, meshes |-> rmeshes]

\* new DOMMesh, before the sources are set: a mesh that loads the sources of
\* its element itself or not, with the number of images, videos and canvases
\* the element holds.
NewDOMMesh(p) ==
  NewMesh(p) @@ [autoloadSources |-> p.autoloadSources, loaderSize |-> p.sources,
                 sourcesLoaded |-> 0, sourcesReady |-> FALSE]

\* DOMMesh.DOMMeshReady.
DOMMeshReady(w, m) == w.mesh[m].ready /\ w.mesh[m].sourcesReady

\* The onReady callback of DOM mesh m is called; what is true of the mesh at
\* that moment is kept with the call.
onReadyCallback(w, m) ==
  [w EXCEPT !.cmds = Append(@, [op |-> "onReady", mesh |-> m,
                                materialReady |-> MaterialReady(w, m),
                                geometryReady |-> GeometryReady(w, m),
                                sourcesLoaded |-> w.mesh[m].sourcesLoaded])]

\* DOMMesh, set ready: the value is stored and the callback called when the
\* DOM mesh is ready.
DOMMeshSetReady(w, m, value) ==
  LET set(w1) == IF DOMMeshReady(w1, m) THEN onReadyCallback(w1, m) ELSE w1
  IN set([w EXCEPT !.mesh[m].ready = value])

\* DOMMesh, set sourcesReady: the value is stored and the callback called when
\* the DOM mesh is ready.
DOMMeshSetSourcesReady(w, m, value) ==
  LET set(w1) == IF DOMMeshReady(w1, m) THEN onReadyCallback(w1, m) ELSE w1
  IN set([w EXCEPT !.mesh[m].sourcesReady = value])

\* this.ready = value, on the class of the object.
SetReady(w, m, value) ==
  IF w.mesh[m].type = "DOMMesh" THEN DOMMeshSetReady(w, m, value)
  ELSE [w EXCEPT !.mesh[m].ready = value]

\* DOMMesh.setInitSources: with no source to load the sources are ready at
\* once; else each texture will tell when its source is uploaded.
setInitSources(w, m) ==
  IF w.mesh[m].autoloadSources /\ w.mesh[m].loaderSize > 0 THEN w
  ELSE DOMMeshSetSourcesReady(w, m, TRUE)

\* The onSourceUploaded callback setInitSources gives to each texture.
onSourceUploaded(w, m) ==
  LET counted == [w EXCEPT !.mesh[m].sourcesLoaded = @ + 1]
  IN IF counted.mesh[m].sourcesLoaded = counted.mesh[m].loaderSize
       THEN DOMMeshSetSourcesReady(counted, m, TRUE) ELSE counted

\* MeshBase.onBeforeRenderPass: nothing when the renderer is not ready; else
\* the mesh is refreshed, which the commands record.
onBeforeRenderPass(w, m, thrower) ==
  IF ~w.rendererReady THEN w
  ELSE LET w0 == [w EXCEPT !.cmds = Append(@, Cmd("onBeforeRenderPass", m))]
           w1 == IF MaterialReady(w0, m) /\ GeometryReady(w0, m) /\ ~w0.mesh[m].ready
                   THEN SetReady(w0, m, TRUE) ELSE w0
           w2 == setGeometry(w1, m)
       IN IF Throws(thrower, m, "onBeforeRender") THEN [w2 EXCEPT !.threw = TRUE]
          ELSE MaterialOnBeforeRender(w2, m)

\* MeshBase.onRenderPass: nothing unless the material is ready; else the
\* callback, the material and the geometry.
onRenderPass(w, m, thrower) ==
  IF ~MaterialReady(w, m) THEN w
  ELSE IF Throws(thrower, m, "onRender") THEN [w EXCEPT !.threw = TRUE]
  ELSE [MaterialRender(w, m) EXCEPT !.cmds = Append(@, Cmd("draw", m))]

\* MeshBase.render.
MeshRender(w, m, thrower) ==
  LET render(w1) ==
        IF w1.threw THEN w1
        ELSE IF ~w1.rendererReady \/ ~w1.mesh[m].visible THEN w1
        ELSE onRenderPass(w1, m, thrower)
  IN render(onBeforeRenderPass(w, m, thrower))

\* ---------------------------------------------------------------- frame

\* The renderer is a camera renderer: it has a camera bind group.
cameraBindGroup == TRUE

\* forEach over a stack, calling onBeforeRenderPass: an exception ends it.
RECURSIVE RefreshAll(_, _, _)
RefreshAll(w, stack, thrower) ==
  IF stack = <<>> \/ w.threw THEN w
  ELSE RefreshAll(onBeforeRenderPass(w, Head(stack), thrower), Tail(stack), thrower)

\* forEach over a stack, calling render on the current pass.
RECURSIVE RenderAll(_, _, _)
RenderAll(w, stack, thrower) ==
  IF stack = <<>> \/ w.threw THEN w
  ELSE RenderAll(MeshRender(w, Head(stack), thrower), Tail(stack), thrower)

\* commandEncoder.beginRenderPass: a pass with no pipeline set; the pipeline
\* manager is not told.
beginRenderPass(w) ==
  [w EXCEPT !.cmds = Append(w.cmds, Cmd("beginRenderPass", 0))]

Encode(w, op, m) == IF w.threw THEN w ELSE [w EXCEPT !.cmds = Append(w.cmds, Cmd(op, m))]

\* The loop over the ping pong planes done as the loop over the shader passes
\* is: the copy into the render texture of the plane is encoded before the
\* pass of the plane begins.
RECURSIVE RenderPingPongPlanesCopyFirst(_, _, _)
RenderPingPongPlanesCopyFirst(w, stack, thrower) ==
  IF stack = <<>> \/ w.threw THEN w
  ELSE LET copied == Encode(w, "copyTextureToTexture", Head(stack))
           drawn == MeshRender(beginRenderPass(copied), Head(stack), thrower)
       IN RenderPingPongPlanesCopyFirst(Encode(drawn, "end", 0), Tail(stack), thrower)

\* The loop of Scene.render over the ping pong planes: each is drawn in a pass
\* of its own, which is then copied into its render texture.
RECURSIVE RenderPingPongPlanes(_, _, _)
RenderPingPongPlanes(w, stack, thrower) ==
  IF stack = <<>> \/ w.threw THEN w
  ELSE LET drawn == MeshRender(beginRenderPass(w), Head(stack), thrower)
           copied == Encode(Encode(drawn, "end", 0), "copyTextureToTexture", Head(stack))
       IN RenderPingPongPlanes(copied, Tail(stack), thrower)

\* The loop of Scene.render over the shader passes: the swap chain texture is
\* copied into the render texture of the pass, which is drawn in a pass of its
\* own.
RECURSIVE RenderShaderPasses(_, _, _)
RenderShaderPasses(w, stack, thrower) ==
  IF stack = <<>> \/ w.threw THEN w
  ELSE LET copied == Encode(w, "copyTextureToTexture", Head(stack))
           drawn == MeshRender(beginRenderPass(copied), Head(stack), thrower)
       IN RenderShaderPasses(Encode(drawn, "end", 0), Tail(stack), thrower)

\* Scene.render without its first loop: the objects are refreshed by their
\* render method only, once their pass has begun.
SceneRenderWithoutRefresh(w, st, thrower) ==
  LET begin(w1) == IF w1.threw THEN w1 ELSE beginRenderPass(w1)
      setCameraBindGroup(w1) ==
        IF cameraBindGroup THEN Encode(w1, "setBindGroup", 0) ELSE w1
      pingPong == RenderPingPongPlanes(w, st.unprojected.pingPongPlanes, thrower)
      begun == begin(pingPong)
      unprojected == RenderAll(RenderAll(begun, st.unprojected.opaque, thrower),
                               st.unprojected.transparent, thrower)
      camera == setCameraBindGroup(unprojected)
      projected == RenderAll(RenderAll(camera, st.projected.opaque, thrower),
                             st.projected.transparent, thrower)
  IN RenderShaderPasses(Encode(projected, "end", 0), st.unprojected.shaderPasses, thrower)

\* Scene.render with the camera bind group set as soon as the main pass
\* begins.
SceneRenderCameraFirst(w, st, thrower) ==
  LET all == st.unprojected.opaque \o st.unprojected.transparent
               \o st.unprojected.pingPongPlanes \o st.unprojected.shaderPasses
               \o st.projected.opaque \o st.projected.transparent
      begin(w1) == IF w1.threw THEN w1 ELSE beginRenderPass(w1)
      fresh == RefreshAll(w, all, thrower)
      pingPong == RenderPingPongPlanes(fresh, st.unprojected.pingPongPlanes, thrower)
      camera == Encode(begin(pingPong), "setBindGroup", 0)
      unprojected == RenderAll(RenderAll(camera, st.unprojected.opaque, thrower),
                               st.unprojected.transparent, thrower)
      projected == RenderAll(RenderAll(unprojected, st.projected.opaque, thrower),
                             st.projected.transparent, thrower)
  IN RenderShaderPasses(Encode(projected, "end", 0), st.unprojected.shaderPasses, thrower)

\* Scene.render: every object of every stack is refreshed, then the ping pong
\* planes, the main pass and the shader passes are encoded.
SceneRender(w, st, thrower) ==
  LET all == st.unprojected.opaque \o st.unprojected.transparent
               \o st.unprojected.pingPongPlanes \o st.unprojected.shaderPasses
               \o st.projected.opaque \o st.projected.transparent
      begin(w1) == IF w1.threw THEN w1 ELSE beginRenderPass(w1)
      setCameraBindGroup(w1) ==
        IF cameraBindGroup THEN Encode(w1, "setBindGroup", 0) ELSE w1
      fresh == RefreshAll(w, all, thrower)
      pingPong == RenderPingPongPlanes(fresh, st.unprojected.pingPongPlanes, thrower)
      begun == begin(pingPong)
      unprojected == RenderAll(RenderAll(begun, st.unprojected.opaque, thrower),
                               st.unprojected.transparent, thrower)
      camera == setCameraBindGroup(unprojected)
      projected == RenderAll(RenderAll(camera, st.projected.opaque, thrower),
                             st.projected.transparent, thrower)
  IN RenderShaderPasses(Encode(projected, "end", 0), st.unprojected.shaderPasses, thrower)

\* The body of GPURenderer.render with the callback and the tasks of after the
\* scene run before it.
RenderSceneAfterHooks(w, st, thrower) ==
  LET before(w1) == Encode(Encode(w1, "onBeforeRender", 0), "onBeforeRenderScene", 0)
      after(w1) == Encode(Encode(w1, "onAfterRender", 0), "onAfterRenderScene", 0)
  IN SceneRender(after(before(w)), st, thrower)

\* The body of GPURenderer.render: the callback and the tasks before the
\* scene, the scene, the callback and the tasks after it.
RenderSceneWithHooks(w, st, thrower) ==
  LET before(w1) == Encode(Encode(w1, "onBeforeRender", 0), "onBeforeRenderScene", 0)
      after(w1) == Encode(Encode(w1, "onAfterRender", 0), "onAfterRenderScene", 0)
  IN after(SceneRender(before(w), st, thrower))

\* GPURenderer.render without the test of this.ready.
GPURendererRenderAnyway(w, st, thrower) == RenderSceneWithHooks(w, st, thrower)

\* GPURenderer.render: nothing when the renderer is not ready, else the
\* callbacks, the tasks and the scene.
GPURendererRender(w, st, thrower) ==
  IF ~w.rendererReady THEN w ELSE RenderSceneWithHooks(w, st, thrower)

\* GPURenderer.onBeforeCommandEncoder.
onBeforeCommandEncoder(w) ==
  IF ~w.rendererReady THEN w ELSE Encode(w, "onBeforeCommandEncoderCreation", 0)

\* GPURenderer.onAfterCommandEncoder.
onAfterCommandEncoder(w) ==
  IF ~w.rendererReady THEN w ELSE Encode(w, "onAfterCommandEncoderSubmission", 0)

\* GPUDeviceManager.render: nothing without a device; else the renderer is
\* told before the command encoder is created, renders, and once the commands
\* are submitted the current pipeline is reset and the renderer told again.
\* An exception of the renderer leaves with nothing submitted.
GPUDeviceManagerRender(w, st, thrower) ==
  LET submitted(w1) ==
        IF w1.threw \/ ~w1.rendererReady THEN w1
        ELSE onAfterCommandEncoder(resetCurrentPipeline(Encode(w1, "submit", 0)))
  IN submitted(GPURendererRender(onBeforeCommandEncoder(w), st, thrower))

\* GPURenderer.renderSingleMesh.
renderSingleMesh(w, m, thrower) ==
  Encode(MeshRender(beginRenderPass(w), m, thrower), "end", 0)

\* The loop of GPURenderer.renderOnce over the objects.
RECURSIVE RenderSingleMeshes(_, _, _)
RenderSingleMeshes(w, objects, thrower) ==
  IF objects = <<>> \/ w.threw THEN w
  ELSE RenderSingleMeshes(renderSingleMesh(w, Head(objects), thrower), Tail(objects), thrower)

\* GPURenderer.renderOnce calling the render callbacks of the renderer as a
\* frame does.
GPURendererRenderOnceWithHooks(w, objects, thrower) ==
  LET submitted(w1) ==
        IF w1.threw THEN w1
        ELSE resetCurrentPipeline(Encode(Encode(w1, "onAfterRender", 0), "submit", 0))
  IN IF ~w.rendererReady THEN [resetCurrentPipeline(w) EXCEPT !.threw = TRUE]
     ELSE submitted(RenderSingleMeshes(Encode(resetCurrentPipeline(w), "onBeforeRender", 0),
                                       objects, thrower))

\* GPURenderer.renderOnce with the current pipeline left as the last draw set
\* it.
GPURendererRenderOnceNoReset(w, objects, thrower) ==
  LET submitted(w1) ==
        IF w1.threw THEN w1 ELSE resetCurrentPipelineKept(Encode(w1, "submit", 0))
  IN IF ~w.rendererReady THEN [resetCurrentPipeline(w) EXCEPT !.threw = TRUE]
     ELSE submitted(RenderSingleMeshes(resetCurrentPipeline(w), objects, thrower))

\* GPURenderer.renderOnce: the current pipeline is reset, each object is
\* rendered in a pass of its own, the commands are submitted and the current
\* pipeline is reset again. Without a device there is no command encoder and
\* the first call on it throws.
GPURendererRenderOnce(w, objects, thrower) ==
  LET submitted(w1) ==
        IF w1.threw THEN w1 ELSE resetCurrentPipeline(Encode(w1, "submit", 0))
  IN IF ~w.rendererReady THEN [resetCurrentPipeline(w) EXCEPT !.threw = TRUE]
     ELSE submitted(RenderSingleMeshes(resetCurrentPipeline(w), objects, thrower))

\* ---------------------------------------------------------------- actions

\* The objects as a call finds them, with no command issued yet.
World ==
  [mesh |-> mesh, materials |-> materials, entries |-> pipelineEntries,
   rendererReady |-> rendererReady, device |-> deviceManager.device, cmds |-> <<>>,
   current |-> deviceManager.currentPipelineIndex, threw |-> FALSE]

\* What a call leaves behind: its name and the commands it issued.
Called(name, w) ==
  IF w.cmds = <<>> /\ name # "render" THEN NoCall
  ELSE [name |-> name, ready |-> w.rendererReady, threw |-> w.threw, cmds |-> w.cmds]

NotWatched == [armed |-> FALSE, flushes |-> 0, drawn |-> FALSE]

\* The flushes updateBindGroups ran for mesh m among the commands.
FlushesOf(cmds, m) ==
  Cardinality({i \in 1..Len(cmds) : /\ cmds[i].op = "flushPipelineEntry"
                                    /\ cmds[i].mesh = m
                                    /\ cmds[i].from = "updateBindGroups"})

\* The watch once the commands of a call are counted: flushes up to 2, and
\* whether the mesh has been drawn.
Watched(wt, cmds) ==
  [m \in DOMAIN wt |->
     IF wt[m].armed
       THEN [armed |-> TRUE,
             flushes |-> IF wt[m].flushes + FlushesOf(cmds, m) > 2 THEN 2
                         ELSE wt[m].flushes + FlushesOf(cmds, m),
             drawn |-> wt[m].drawn \/ CountCmds(cmds, "draw", m) > 0]
       ELSE wt[m]]

\* new MeshBase(renderer, element, p) or new ShaderPass(renderer, p): the
\* constructor, addToScene included.
CreateMesh(p, limit) ==
  /\ Len(mesh) < limit
  /\ LET i == Len(mesh) + 1
         got == createRenderPipeline(pipelineEntries, RenderMaterialPipelineParams(i, p))
         w == [World EXCEPT !.mesh = Append(mesh, NewMesh(p)),
                            !.materials = Append(materials, NewRenderMaterial(p, got.index)),
                            !.entries = got.entries]
         added == addToScene(w, stacks, meshes, i)
     IN /\ mesh' = added.w.mesh
        /\ materials' = added.w.materials
        /\ pipelineEntries' = added.w.entries
        /\ meshes' = added.meshes
        /\ stacks' = added.stacks
        /\ trace' = Called("addToScene", added.w)
        /\ watch' = Append(watch, NotWatched)
  /\ UNCHANGED <<deviceManager, rendererReady>>

\* new DOMMesh(renderer, element, p): the constructor of the mesh, then the
\* sources are not ready and setInitSources.
CreateDOMMesh(p, limit) ==
  /\ Len(mesh) < limit
  /\ LET i == Len(mesh) + 1
         got == createRenderPipeline(pipelineEntries, RenderMaterialPipelineParams(i, p))
         w == [World EXCEPT !.mesh = Append(mesh, NewDOMMesh(p)),
                            !.materials = Append(materials, NewRenderMaterial(p, got.index)),
                            !.entries = got.entries]
         made(added) ==
           /\ mesh' = setInitSources(added.w, i).mesh
           /\ materials' = added.w.materials
           /\ pipelineEntries' = added.w.entries
           /\ meshes' = added.meshes
           /\ stacks' = added.stacks
           /\ trace' = Called("addToScene", setInitSources(added.w, i))
     IN made(addToScene(w, stacks, meshes, i))
  /\ watch' = Append(watch, NotWatched)
  /\ UNCHANGED <<deviceManager, rendererReady>>

\* A texture of DOM mesh m tells that its source is uploaded; uploading takes
\* the device.
SourceUploaded(m) ==
  /\ rendererReady
  /\ mesh[m].type = "DOMMesh"
  /\ mesh[m].autoloadSources
  /\ mesh[m].sourcesLoaded < mesh[m].loaderSize
  /\ LET uploaded(w) ==
           /\ mesh' = w.mesh
           /\ trace' = Called("onSourceUploaded", w)
     IN uploaded(onSourceUploaded(World, m))
  /\ UNCHANGED <<deviceManager, materials, pipelineEntries, meshes, stacks, rendererReady, watch>>

\* mesh.removeFromScene() called by the application.
RemoveFromScene(m) ==
  /\ Occurrences(meshes, m) > 0
  /\ LET removed == MeshRemoveFromScene(stacks, meshes, mesh, materials, m)
     IN /\ meshes' = removed.meshes
        /\ stacks' = removed.stacks
  /\ trace' = NoCall
  /\ UNCHANGED <<deviceManager, mesh, materials, pipelineEntries, rendererReady, watch>>

\* mesh.addToScene() called by the application on a mesh it had removed.
AddToScene(m) ==
  /\ Occurrences(meshes, m) = 0
  /\ LET added == addToScene(World, stacks, meshes, m)
     IN /\ materials' = added.w.materials
        /\ pipelineEntries' = added.w.entries
        /\ meshes' = added.meshes
        /\ stacks' = added.stacks
        /\ trace' = Called("addToScene", added.w)
  /\ UNCHANGED <<deviceManager, mesh, rendererReady, watch>>

\* mesh.setRenderTarget(renderTarget) called by the application, with a render
\* target or with null.
SetRenderTarget(m, renderTarget) ==
  /\ mesh[m].renderTarget # renderTarget
  /\ LET set(added) ==
           /\ mesh' = added.w.mesh
           /\ materials' = added.w.materials
           /\ pipelineEntries' = added.w.entries
           /\ meshes' = added.meshes
           /\ stacks' = added.stacks
           /\ trace' = Called("setRenderTarget", added.w)
     IN set(setRenderTarget(World, stacks, meshes, m, renderTarget))
  /\ UNCHANGED <<deviceManager, rendererReady, watch>>

\* mesh.setRenderer(value) called by the application.
SetRenderer(m, value) ==
  /\ Occurrences(meshes, m) > 0
  /\ LET set(added) ==
           /\ mesh' = added.w.mesh
           /\ materials' = added.w.materials
           /\ pipelineEntries' = added.w.entries
           /\ meshes' = added.meshes
           /\ stacks' = added.stacks
           /\ trace' = Called("setRenderer", added.w)
     IN set(setRenderer(World, stacks, meshes, m, value))
  /\ UNCHANGED <<deviceManager, rendererReady, watch>>

\* The device is lost: the renderer stops being ready and loses the context.
LoseContext ==
  /\ rendererReady
  /\ rendererReady' = FALSE
  /\ LET lost(r) ==
           /\ mesh' = r.w.mesh
           /\ materials' = r.w.materials
           /\ pipelineEntries' = r.w.entries
           /\ meshes' = r.meshes
           /\ stacks' = r.stacks
     IN lost(GPURendererLoseContext(World, stacks, meshes))
  /\ trace' = [NoCall EXCEPT !.name = "loseContext"]
  /\ deviceManager' = [deviceManager EXCEPT !.device = FALSE]
  /\ UNCHANGED watch

\* The device is set or restored: the renderer restores the context and is
\* ready again.
RestoreContext ==
  /\ ~rendererReady
  /\ rendererReady' = TRUE
  /\ LET restored(r) ==
           /\ mesh' = r.w.mesh
           /\ materials' = r.w.materials
           /\ pipelineEntries' = r.w.entries
           /\ meshes' = r.meshes
           /\ stacks' = r.stacks
     IN restored(GPURendererRestoreContext(World, stacks, meshes))
  /\ trace' = [NoCall EXCEPT !.name = "restoreContext", !.ready = TRUE]
  /\ deviceManager' = [deviceManager EXCEPT !.device = TRUE]
  /\ UNCHANGED watch

\* The mesh moves along the z axis: documentPosition.z is recomputed.
MoveMesh(m, z) ==
  /\ mesh[m].z # z
  /\ mesh' = [mesh EXCEPT ![m].z = z]
  /\ trace' = NoCall
  /\ UNCHANGED <<deviceManager, materials, pipelineEntries, meshes, stacks, rendererReady, watch>>

\* The device is set, the context configured or lost, the canvas sized:
\* GPURenderer.ready changes. A renderer that is ready has its device, and
\* one that stops being ready this way keeps it.
SetRendererReady ==
  /\ rendererReady' = ~rendererReady
  /\ deviceManager' = [deviceManager EXCEPT !.device = @ \/ ~rendererReady]
  /\ trace' = NoCall
  /\ UNCHANGED <<mesh, materials, pipelineEntries, meshes, stacks, watch>>

\* The device answers createRenderPipelineAsync for entry e.
ResolveCompile(e) ==
  /\ pipelineEntries[e].pending > 0
  /\ pipelineEntries' = [pipelineEntries EXCEPT ![e] = createRenderPipelineAsync(@)]
  /\ trace' = IF DeviceCompiles(pipelineEntries[e]) THEN NoCall
               ELSE Called("createRenderPipelineAsync",
                           [World EXCEPT !.cmds = <<Cmd("throwError", 0)>>])
  /\ UNCHANGED <<deviceManager, mesh, materials, meshes, stacks, rendererReady, watch>>

\* texture.loadVideo(source) on the texture of mesh m: the texture becomes an
\* external video texture that has to be uploaded. The watch starts when the
\* bind group exists and the entry is compiled.
LoadVideo(m) ==
  /\ materials[m].textures[1].sourceType = "empty"
  /\ materials' = [materials EXCEPT ![m].textures[1].sourceType = "externalVideo",
                                    ![m].textures[1].shouldUpdate = TRUE]
  /\ watch' = [watch EXCEPT ![m] =
                 IF /\ materials[m].texturesBindGroup.bindGroup
                    /\ PipelineEntryReady(pipelineEntries[materials[m].entry])
                   THEN [armed |-> TRUE, flushes |-> 0, drawn |-> FALSE] ELSE @]
  /\ trace' = NoCall
  /\ UNCHANGED <<deviceManager, mesh, pipelineEntries, meshes, stacks, rendererReady>>

\* Texture.createTexture on a video texture (the video is resized): the next
\* frame uploads it again.
CreateTexture(m) ==
  /\ materials[m].textures[1].sourceType = "externalVideo"
  /\ ~materials[m].textures[1].shouldUpdate
  /\ materials' = [materials EXCEPT ![m].textures[1].shouldUpdate = TRUE]
  /\ trace' = NoCall
  /\ UNCHANGED <<deviceManager, mesh, pipelineEntries, meshes, stacks, rendererReady, watch>>

\* The sampler binding of the texture of mesh m is given another sampler.
SetSamplerResource(m) ==
  /\ ~materials[m].texturesBindGroup.shouldResetBindGroup
  /\ materials' = [materials EXCEPT ![m].texturesBindGroup =
                     SamplerBindingSetResource(@, materials[m].textures[1])]
  /\ trace' = NoCall
  /\ UNCHANGED <<deviceManager, mesh, pipelineEntries, meshes, stacks, rendererReady, watch>>

\* material.setRenderingOptions({ sampleCount }) called by the application.
SetRenderingOptions(m, sampleCount) ==
  /\ LET set(w) ==
           /\ materials' = w.materials
           /\ pipelineEntries' = w.entries
           /\ trace' = Called("setRenderingOptions", w)
     IN set(setRenderingOptions(World, m, sampleCount))
  /\ UNCHANGED <<deviceManager, mesh, meshes, stacks, rendererReady, watch>>

\* mesh.addTexture(texture) called by the application with the Texture it
\* created once for several meshes.
AddTexture(m, uuid) ==
  /\ Occurrences(meshes, m) > 0
  /\ Len(materials[m].textures) < MaxTextures
  /\ \A i \in DOMAIN materials[m].textures : materials[m].textures[i].uuid # uuid
  /\ materials' = [materials EXCEPT ![m] = MaterialAddTexture(@, SharedTexture(uuid))]
  /\ trace' = [NoCall EXCEPT !.name = "addTexture"]
  /\ UNCHANGED <<deviceManager, mesh, pipelineEntries, meshes, stacks, rendererReady, watch>>

\* The device exists: the renderer has the textures that had none create their
\* GPU texture and their sampler.
CreateTextureResources(m) ==
  /\ rendererReady
  /\ \E i \in DOMAIN materials[m].textures : materials[m].textures[i].texture = "none"
  /\ materials' = [materials EXCEPT ![m].textures =
                     [i \in DOMAIN @ |-> TextureCreateResources(@[i])]]
  /\ trace' = NoCall
  /\ UNCHANGED <<deviceManager, mesh, pipelineEntries, meshes, stacks, rendererReady, watch>>

\* mesh.remove() called by the application.
Remove(m) ==
  /\ Occurrences(meshes, m) > 0
  /\ LET removed(r) ==
           /\ mesh' = r.w.mesh
           /\ materials' = r.w.materials
           /\ pipelineEntries' = r.w.entries
           /\ meshes' = r.meshes
           /\ stacks' = r.stacks
     IN removed(MeshRemove(World, stacks, meshes, m))
  /\ trace' = [NoCall EXCEPT !.name = "remove"]
  /\ UNCHANGED <<deviceManager, rendererReady, watch>>

\* new Sampler(renderer, options) called by the application; the device
\* manager has its device when the renderer is ready.
CreateSampler(options) ==
  /\ Len(deviceManager.samplers) < MaxSamplers
  /\ LET created(r) ==
           /\ deviceManager' = [deviceManager EXCEPT !.samplers = r.samplers]
           /\ trace' = [NoCall EXCEPT !.name = "createSampler"]
     IN created(SamplerCreateSampler(deviceManager.samplers, NewSampler(options), rendererReady))
  /\ UNCHANGED <<mesh, materials, pipelineEntries, meshes, stacks, rendererReady, watch>>

\* No application callback throws in the frame.
NoThrower == [mesh |-> 0, hook |-> "none"]

\* The application callbacks that can throw in a frame: none, or the one of
\* one hook of one mesh.
Throwers == {NoThrower} \cup [mesh : DOMAIN mesh, hook : Hooks]

\* One frame: the device manager renders, and GPURenderer.render(commandEncoder)
\* with it.
RenderFrame(thrower) ==
  /\ LET rendered(w) ==
           /\ mesh' = w.mesh
           /\ materials' = w.materials
           /\ pipelineEntries' = w.entries
           /\ deviceManager' = [deviceManager EXCEPT !.currentPipelineIndex = w.current]
           /\ trace' = Called("render", w)
           /\ watch' = Watched(watch, w.cmds)
     IN rendered(GPUDeviceManagerRender(World, stacks, thrower))
  /\ UNCHANGED <<meshes, stacks, rendererReady>>

\* renderer.renderOnce(objects) called by the application.
RenderOnce(objects, thrower) ==
  /\ LET rendered(w) ==
           /\ mesh' = w.mesh
           /\ materials' = w.materials
           /\ pipelineEntries' = w.entries
           /\ deviceManager' = [deviceManager EXCEPT !.currentPipelineIndex = w.current]
           /\ trace' = Called("renderOnce", w)
           /\ watch' = Watched(watch, w.cmds)
     IN rendered(GPURendererRenderOnce(World, objects, thrower))
  /\ UNCHANGED <<meshes, stacks, rendererReady>>

\* ---------------------------------------------------------------- specifications

Init ==
  /\ mesh = <<>>
  /\ materials = <<>>
  /\ pipelineEntries = <<>>
  /\ meshes = <<>>
  /\ stacks = EmptyStacks
  /\ rendererReady = FALSE
  /\ trace = NoCall
  /\ watch = <<>>
  /\ deviceManager = [samplers |-> <<>>, currentPipelineIndex |-> 0, device |-> FALSE]

\* Meshes of every partition are constructed, removed and added again.
SceneNext ==
  \/ \E p \in SceneMeshParams : CreateMesh(p, MaxMeshes)
  \/ \E m \in DOMAIN mesh : RemoveFromScene(m)
  \/ \E m \in DOMAIN mesh : AddToScene(m)

SpecScene == Init /\ [][SceneNext]_vars

\* Transparent meshes are constructed at several depths and move.
DepthNext ==
  \/ \E p \in DepthMeshParams : CreateMesh(p, MaxMeshes)
  \/ \E m \in DOMAIN mesh, z \in Depths : MoveMesh(m, z)

SpecDepth == Init /\ [][DepthNext]_vars

\* Meshes and shader passes are constructed, pipelines compile or fail, the
\* renderer becomes ready or stops being so, and frames are rendered in which
\* an application callback may throw.
FrameNext ==
  \/ \E p \in FrameMeshParams : CreateMesh(p, MaxFrameMeshes)
  \/ SetRendererReady
  \/ \E e \in DOMAIN pipelineEntries : ResolveCompile(e)
  \/ \E thrower \in Throwers : RenderFrame(thrower)

SpecFrame == Init /\ [][FrameNext]_vars

\* Meshes are constructed, their textures become video textures, their
\* samplers and rendering options change, pipelines compile and frames are
\* rendered.
FlushNext ==
  \/ \E p \in FlushMeshParams : CreateMesh(p, MaxFlushMeshes)
  \/ SetRendererReady
  \/ \E e \in DOMAIN pipelineEntries : ResolveCompile(e)
  \/ \E m \in DOMAIN mesh : LoadVideo(m)
  \/ \E m \in DOMAIN mesh : CreateTexture(m)
  \/ \E m \in DOMAIN mesh : SetSamplerResource(m)
  \/ \E m \in DOMAIN mesh, sampleCount \in SampleCounts : SetRenderingOptions(m, sampleCount)
  \/ RenderFrame(NoThrower)

SpecFlush == Init /\ [][FlushNext]_vars

\* Meshes are constructed with or without a render target, are given another
\* or none, and frames are rendered.
TargetNext ==
  \/ \E p \in TargetMeshParams : CreateMesh(p, MaxTargetMeshes)
  \/ \E m \in DOMAIN mesh, rt \in {NoRenderTarget} \cup RenderTargets : SetRenderTarget(m, rt)
  \/ SetRendererReady
  \/ RenderFrame(NoThrower)

SpecTarget == Init /\ [][TargetNext]_vars

\* Meshes and shader passes are constructed, the device is lost and restored,
\* and frames are rendered.
ContextNext ==
  \/ \E p \in ContextMeshParams : CreateMesh(p, MaxContextMeshes)
  \/ LoseContext
  \/ RestoreContext
  \/ RenderFrame(NoThrower)

SpecContext == Init /\ [][ContextNext]_vars

\* The textures a mesh is constructed with: none, one with its GPU texture or
\* one made before the device existed.
ResourceMeshParams ==
  [type : {"Mesh"}, transparent : {FALSE}, useProjection : {FALSE}, renderOrder : {0},
   z : {1}, shader : {"s1"}, useAsync : {FALSE},
   textures : {<<>>, <<NewTexture>>, <<NullTexture>>}]

\* The Texture objects the application shares between meshes.
SharedTextures == {1}

\* Meshes are constructed with or without textures, share textures, are
\* removed, and frames are rendered.
ResourceNext ==
  \/ \E p \in ResourceMeshParams : CreateMesh(p, MaxResourceMeshes)
  \/ \E m \in DOMAIN mesh, uuid \in SharedTextures : AddTexture(m, uuid)
  \/ \E m \in DOMAIN mesh : CreateTextureResources(m)
  \/ \E m \in DOMAIN mesh : Remove(m)
  \/ SetRendererReady
  \/ RenderFrame(NoThrower)

SpecResource == Init /\ [][ResourceNext]_vars

\* Constructor parameters when objects are rendered once: opaque unprojected
\* meshes, rendered by the scene or not.
OnceMeshParams ==
  [type : {"Mesh"}, transparent : {FALSE}, useProjection : {FALSE}, renderOrder : {0},
   z : {1}, shader : Shaders, useAsync : {FALSE}, autoRender : BOOLEAN]

\* The arrays of objects an application hands to renderOnce.
OnceObjects ==
  UNION {[1..n -> DOMAIN mesh] : n \in 0..MaxOnceObjects}

\* Meshes are constructed, some of them left out of the scene, objects are
\* rendered once and frames are rendered, an application callback throwing or
\* not.
OnceNext ==
  \/ \E p \in OnceMeshParams : CreateMesh(p, MaxOnceMeshes)
  \/ SetRendererReady
  \/ \E objects \in OnceObjects, thrower \in Throwers : RenderOnce(objects, thrower)
  \/ \E thrower \in Throwers : RenderFrame(thrower)

SpecOnce == Init /\ [][OnceNext]_vars

\* Constructor parameters when setters are misused: opaque and transparent
\* unprojected meshes with a render target or with none.
MisuseMeshParams ==
  [type : {"Mesh"}, transparent : BOOLEAN, useProjection : {FALSE}, renderOrder : {0},
   z : {1}, shader : {"s1"}, useAsync : {FALSE}, renderTarget : {NoRenderTarget, 1}]

\* What an application hands to setRenderTarget: null, a render target,
\* undefined or another object.
RenderTargetValues ==
  {NoRenderTarget, UndefinedRenderTarget, NotARenderTarget} \cup RenderTargets

\* What an application hands to setRenderer: null, the renderer, the
\* GPUCurtains object that holds it, a GPUCurtains object without a renderer,
\* or an object of another type.
RendererValues ==
  {[type |-> "null", renderer |-> "null"],
   [type |-> "GPURenderer", renderer |-> "null"],
   [type |-> "CurtainsGPU", renderer |-> "GPURenderer"],
   [type |-> "CurtainsGPU", renderer |-> "null"],
   [type |-> "Scene", renderer |-> "null"]}

\* Meshes are constructed and their setters are called with values of every
\* kind.
MisuseNext ==
  \/ \E p \in MisuseMeshParams : CreateMesh(p, MaxMisuseMeshes)
  \/ \E m \in DOMAIN mesh, value \in RenderTargetValues : SetRenderTarget(m, value)
  \/ \E m \in DOMAIN mesh, value \in RendererValues : SetRenderer(m, value)

SpecMisuse == Init /\ [][MisuseNext]_vars

\* Constructor parameters of the DOM meshes: opaque meshes whose element holds
\* up to MaxSources sources, loaded by the mesh or not, with a pipeline
\* compiled synchronously or asynchronously.
DOMMeshParams ==
  [type : {"DOMMesh"}, transparent : {FALSE}, useProjection : {TRUE}, renderOrder : {0},
   z : {1}, shader : {"s1"}, useAsync : BOOLEAN, autoloadSources : BOOLEAN,
   sources : 0..MaxSources]

\* DOM meshes are constructed, their sources are uploaded, pipelines compile,
\* the device is lost and restored, and frames are rendered.
DOMNext ==
  \/ \E p \in DOMMeshParams : CreateDOMMesh(p, MaxDOMMeshes)
  \/ \E m \in DOMAIN mesh : SourceUploaded(m)
  \/ \E e \in DOMAIN pipelineEntries : ResolveCompile(e)
  \/ LoseContext
  \/ RestoreContext
  \/ RenderFrame(NoThrower)

SpecDOM == Init /\ [][DOMNext]_vars

\* Constructor parameters when meshes are removed: opaque meshes, projected or
\* not.
RemovalMeshParams ==
  [type : {"Mesh"}, transparent : {FALSE}, useProjection : BOOLEAN, renderOrder : {0},
   z : {1}, shader : Shaders, useAsync : {FALSE}]

\* Meshes are constructed, removed from the scene or removed altogether, and
\* frames are rendered.
RemovalNext ==
  \/ \E p \in RemovalMeshParams : CreateMesh(p, MaxRemovalMeshes)
  \/ \E m \in DOMAIN mesh : RemoveFromScene(m)
  \/ \E m \in DOMAIN mesh : Remove(m)
  \/ SetRendererReady
  \/ RenderFrame(NoThrower)

SpecRemoval == Init /\ [][RemovalNext]_vars

\* Constructor parameters when the order of the partitions is observed:
\* projected meshes, opaque and transparent, at two depths, with two render
\* orders and two shaders, hence two pipeline entries.
OrderMeshParams ==
  [type : {"Mesh"}, transparent : BOOLEAN, useProjection : {TRUE},
   renderOrder : RenderOrders, z : {1, 3}, shader : Shaders, useAsync : {FALSE}]

\* Meshes are constructed, removed from the scene and added again in any
\* order.
OrderNext ==
  \/ \E p \in OrderMeshParams : CreateMesh(p, MaxOrderMeshes)
  \/ \E m \in DOMAIN mesh : RemoveFromScene(m)
  \/ \E m \in DOMAIN mesh : AddToScene(m)

SpecOrder == Init /\ [][OrderNext]_vars

\* Constructor parameters when bind groups are created: opaque meshes,
\* projected or not, with up to MaxInputsBindGroups inputs bind groups and
\* with no texture, a texture that has its GPU texture or one made before the
\* device existed.
BindGroupMeshParams ==
  [type : {"Mesh"}, transparent : {FALSE}, useProjection : BOOLEAN, renderOrder : {0},
   z : {1}, shader : {"s1"}, useAsync : {FALSE},
   textures : {<<>>, <<NewTexture>>, <<NullTexture>>},
   inputsBindGroups : 0..MaxInputsBindGroups]

\* Meshes are constructed, their textures get their GPU texture, the device
\* is lost and restored, and frames are rendered.
BindGroupNext ==
  \/ \E p \in BindGroupMeshParams : CreateMesh(p, MaxBindGroupMeshes)
  \/ \E m \in DOMAIN mesh : CreateTextureResources(m)
  \/ LoseContext
  \/ RestoreContext
  \/ RenderFrame(NoThrower)

SpecBindGroups == Init /\ [][BindGroupNext]_vars

\* Constructor parameters when the passes of a frame are observed: meshes of
\* every partition, ping pong planes and shader passes, visible or not.
PassMeshParams ==
  [type : {"Mesh"}, transparent : BOOLEAN, useProjection : BOOLEAN, renderOrder : {0},
   z : {1}, shader : {"s1"}, useAsync : {FALSE}, visible : BOOLEAN]
    \cup [type : {"PingPongPlane", "ShaderPass"}, transparent : {FALSE},
          useProjection : {FALSE}, renderOrder : {0}, z : {1}, shader : {"s1"},
          useAsync : {FALSE}, visible : BOOLEAN]

\* Meshes, ping pong planes and shader passes are constructed, the renderer
\* becomes ready or stops being so, and frames are rendered in which an
\* application callback may throw.
PassNext ==
  \/ \E p \in PassMeshParams : CreateMesh(p, MaxPassMeshes)
  \/ SetRendererReady
  \/ \E thrower \in Throwers : RenderFrame(thrower)

SpecPasses == Init /\ [][PassNext]_vars

\* Constructor parameters when the main pass of a frame is observed: visible
\* meshes of every partition, ping pong planes and shader passes.
MainPassMeshParams ==
  [type : {"Mesh"}, transparent : BOOLEAN, useProjection : BOOLEAN, renderOrder : {0},
   z : {1}, shader : {"s1"}, useAsync : {FALSE}]
    \cup [type : {"PingPongPlane", "ShaderPass"}, transparent : {FALSE},
          useProjection : {FALSE}, renderOrder : {0}, z : {1}, shader : {"s1"},
          useAsync : {FALSE}]

\* Meshes, ping pong planes and shader passes are constructed, the renderer
\* becomes ready or stops being so, and frames are rendered.
MainPassNext ==
  \/ \E p \in MainPassMeshParams : CreateMesh(p, MaxMainPassMeshes)
  \/ SetRendererReady
  \/ RenderFrame(NoThrower)

SpecMainPass == Init /\ [][MainPassNext]_vars

\* Constructor parameters when pipelines are compiled and flushed: opaque
\* unprojected meshes whose shaders compile or not, with a pipeline compiled
\* synchronously or asynchronously.
PipelineMeshParams ==
  [type : {"Mesh"}, transparent : {FALSE}, useProjection : {FALSE}, renderOrder : {0},
   z : {1}, shader : {"s1", "bad"}, useAsync : BOOLEAN]

\* Meshes are constructed and removed from the scene, their rendering options
\* change, the device is lost and restored, pipelines compile and frames are
\* rendered.
PipelineNext ==
  \/ \E p \in PipelineMeshParams : CreateMesh(p, MaxPipelineMeshes)
  \/ \E m \in DOMAIN mesh : RemoveFromScene(m)
  \/ \E m \in DOMAIN mesh, sampleCount \in SampleCounts : SetRenderingOptions(m, sampleCount)
  \/ \E e \in DOMAIN pipelineEntries : ResolveCompile(e)
  \/ LoseContext
  \/ RestoreContext
  \/ RenderFrame(NoThrower)

SpecPipeline == Init /\ [][PipelineNext]_vars

\* The options of the samplers an application constructs.
SamplerOptions == {"linear", "nearest", "repeat"}

\* Samplers are constructed before and after the device is set.
SamplerNext ==
  \/ \E options \in SamplerOptions : CreateSampler(options)
  \/ SetRendererReady

SpecSampler == Init /\ [][SamplerNext]_vars

\* ---------------------------------------------------------------- scene claims

Projections == {"unprojected", "projected"}
Transparencies == {"opaque", "transparent"}

\* The mesh has been added to the scene and not removed since.
InScene(m) == Occurrences(meshes, m) > 0

\* The partition the flags of m select.
PartitionOf(m) == stacks[ProjectionName(materials, m)][TransparencyName(mesh, m)]

\* C1: at every moment each mesh added to the scene is in exactly one of the
\* four partitions, the one its useProjection and transparent flags select,
\* and in no other.
C1_ExactlyOnePartition ==
  \A m \in DOMAIN mesh :
    InScene(m) =>
      \A proj \in Projections, kind \in Transparencies :
        Occurrences(stacks[proj][kind], m) =
          IF proj = ProjectionName(materials, m) /\ kind = TransparencyName(mesh, m)
            THEN 1 ELSE 0

\* C2: of two opaque meshes of the same partition with different render
\* orders, both in the scene, the one with the higher render order comes later
\* in the partition, whatever the order they were inserted in.
C2_HigherRenderOrderLast ==
  \A a, b \in DOMAIN mesh :
    (/\ InScene(a) /\ InScene(b)
     /\ ~mesh[a].transparent /\ ~mesh[b].transparent
     /\ ProjectionName(materials, a) = ProjectionName(materials, b)
     /\ mesh[a].renderOrder < mesh[b].renderOrder)
    => (/\ Occurrences(PartitionOf(a), a) = 1
        /\ Occurrences(PartitionOf(a), b) = 1
        /\ IndexIn(PartitionOf(a), a) < IndexIn(PartitionOf(a), b))

\* Members of equal render order come by decreasing depth.
FarthestFirst(stack, ms) ==
  \A i, j \in 1..Len(stack) :
    (i < j /\ ms[stack[i]].renderOrder = ms[stack[j]].renderOrder)
      => ms[stack[i]].z >= ms[stack[j]].z

\* C3: when a transparent mesh has just been inserted, the members of its
\* partition that have equal render orders are ordered by decreasing
\* documentPosition.z, the farthest first.
C3_TransparentFarthestFirst ==
  [][Len(mesh') > Len(mesh) =>
       FarthestFirst(stacks'[ProjectionName(materials', Len(mesh'))].transparent, mesh')]_vars

\* C3 witness: three transparent meshes of one partition and one render order,
\* at depths 5, 1 and 3, stand in the order depth 5, depth 3, depth 1.
C3_Witness ==
  /\ Len(mesh) = 3
  /\ mesh[1].z = 5 /\ mesh[2].z = 1 /\ mesh[3].z = 3
  /\ mesh[1].renderOrder = mesh[2].renderOrder /\ mesh[2].renderOrder = mesh[3].renderOrder
  /\ ProjectionName(materials, 1) = ProjectionName(materials, 2)
  /\ ProjectionName(materials, 2) = ProjectionName(materials, 3)
  /\ PartitionOf(3) = <<1, 3, 2>>

\* C7: two meshes created with the same shader source and the same rendering
\* options hold the same pipeline entry.
C7_SamePipelineEntry ==
  \A i, j \in DOMAIN materials :
    (materials[i].shader = materials[j].shader /\ materials[i].rendering = materials[j].rendering)
      => materials[i].entry = materials[j].entry

\* C7 witness: two meshes created alike share an entry while a third, created
\* with another shader, holds another one.
C7_Witness ==
  \E i, j, k \in DOMAIN materials :
    /\ i # j
    /\ materials[i].shader = materials[j].shader
    /\ materials[i].rendering = materials[j].rendering
    /\ materials[i].entry = materials[j].entry
    /\ materials[k].entry # materials[i].entry

\* ---------------------------------------------------------------- frame claims

Members(stack) == {stack[i] : i \in 1..Len(stack)}

\* The meshes and shader passes the scene holds.
Stacked(st) ==
  Members(st.unprojected.opaque) \cup Members(st.unprojected.transparent)
    \cup Members(st.unprojected.pingPongPlanes) \cup Members(st.unprojected.shaderPasses)
    \cup Members(st.projected.opaque) \cup Members(st.projected.transparent)

\* A frame was the last call, with the renderer ready, and it ran to its end.
FrameCompleted(tr) == tr.name = "render" /\ tr.ready /\ ~tr.threw

\* The commands that draw mesh m: its pipeline set, its bind groups set, its
\* draw call.
DrawingCmds(cmds, m) ==
  CountCmds(cmds, "setPipeline", m) + CountCmds(cmds, "setBindGroup", m)
    + CountCmds(cmds, "draw", m)

CompilingOrError(entries, mats, m) ==
  entries[mats[m].entry].status.compiling \/ entries[mats[m].entry].status.error

\* In the frame tr: no command draws a stacked mesh whose entry is compiling
\* or in error, and every other visible stacked mesh with a ready entry is
\* drawn.
SkippedOnly(tr, entries, mats, ms, st) ==
  \A m \in Stacked(st) :
    CompilingOrError(entries, mats, m) =>
      /\ DrawingCmds(tr.cmds, m) = 0
      /\ \A n \in Stacked(st) \ {m} :
           (PipelineEntryReady(entries[mats[n].entry]) /\ ms[n].visible)
             => CountCmds(tr.cmds, "draw", n) > 0

\* C4: in a frame, a mesh whose pipeline entry is compiling or in error gets
\* no pipeline, no bind group and no draw call, the stacks are what they were
\* before the frame, and the other meshes are drawn.
C4_CompilingOrErrorSkipped ==
  [][FrameCompleted(trace') =>
       (stacks' = stacks /\ SkippedOnly(trace', pipelineEntries', materials', mesh', stacks'))]_vars

\* C4 witness: a frame in which one stacked mesh has an entry that is
\* compiling, another an entry in error, and a third is drawn.
C4_Witness ==
  /\ FrameCompleted(trace)
  /\ \E a, b, c \in Stacked(stacks) :
       /\ pipelineEntries[materials[a].entry].status.compiling
       /\ ~pipelineEntries[materials[a].entry].status.error
       /\ pipelineEntries[materials[b].entry].status.error
       /\ CountCmds(trace.cmds, "draw", c) > 0

\* C5: a frame requested while the renderer is not ready begins no render
\* pass, draws nothing and copies no texture.
C5_NotReadyFrameSkipped ==
  (trace.name = "render" /\ ~trace.ready) =>
    /\ ~Issued(trace.cmds, "beginRenderPass")
    /\ ~Issued(trace.cmds, "draw")
    /\ ~Issued(trace.cmds, "copyTextureToTexture")

\* C5 witness: a frame was requested while the renderer was not ready, the
\* scene holding a mesh with a compiled pipeline and a shader pass.
C5_Witness ==
  /\ trace.name = "render" /\ ~trace.ready
  /\ \E m \in Members(stacks.unprojected.opaque) :
       pipelineEntries[materials[m].entry].pipeline # NullPipeline
  /\ stacks.unprojected.shaderPasses # <<>>

\* C6: no exception leaves the traversal of a frame: every frame the ready
\* renderer starts runs to its end, and draws every visible stacked mesh whose
\* entry is ready.
C6_NoExceptionLeavesFrame ==
  (trace.name = "render" /\ trace.ready) =>
    /\ ~trace.threw
    /\ \A n \in Stacked(stacks) :
         (PipelineEntryReady(pipelineEntries[materials[n].entry]) /\ mesh[n].visible)
           => CountCmds(trace.cmds, "draw", n) > 0

\* ---------------------------------------------------------------- flush claims

ResourceKinds(mats, m) ==
  [i \in 1..Len(mats[m].textures) |->
     [texture |-> mats[m].textures[i].texture, sampler |-> mats[m].textures[i].sampler]]

C11_StatusExactlyOne ==
  \A e \in DOMAIN pipelineEntries :
    /\ ~(pipelineEntries[e].status.compiling /\ pipelineEntries[e].status.error)
    /\ ~(pipelineEntries[e].status.compiled /\ pipelineEntries[e].status.error)
    /\ ~(pipelineEntries[e].status.compiled /\ pipelineEntries[e].status.compiling)

\* The compilation of entry e ends in this step with the device rejecting
\* its shaders: the answer to an asynchronous request, or a synchronous
\* compilation started and ended within the step.
CompileFails(e) ==
  /\ ~DeviceCompiles(pipelineEntries[e])
  /\ \/ pipelineEntries[e].pending > pipelineEntries'[e].pending
     \/ /\ ~pipelineEntries[e].useAsync
        /\ canCompile(pipelineEntries[e])
        /\ ~canCompile(pipelineEntries'[e])

\* C12: a compilation that fails leaves the error on the entry and reports it
\* with throwError; from then on no step draws a mesh that holds the entry,
\* and no step starts a compilation of it: its status stays what it is and it
\* gets no pipeline.
C12_FailedCompileRecordedAndSkipped ==
  [][\A e \in DOMAIN pipelineEntries :
       /\ CompileFails(e) =>
            (pipelineEntries'[e].status.error /\ Issued(trace'.cmds, "throwError"))
       /\ pipelineEntries[e].status.error =>
            /\ pipelineEntries'[e].status = pipelineEntries[e].status
            /\ pipelineEntries'[e].pipeline = NullPipeline
            /\ pipelineEntries'[e].pending = 0
            /\ \A m \in DOMAIN materials :
                 materials[m].entry = e => DrawingCmds(trace'.cmds, m) = 0]_vars

\* C12 witness: a frame of the ready renderer ran to its end with a stacked
\* mesh whose entry is in error after an asynchronous compilation, issued no
\* command for it and drew another mesh.
C12_Witness ==
  /\ FrameCompleted(trace)
  /\ \E a, c \in Stacked(stacks) :
       /\ pipelineEntries[materials[a].entry].status.error
       /\ pipelineEntries[materials[a].entry].useAsync
       /\ pipelineEntries[materials[a].entry].pipeline = NullPipeline
       /\ DrawingCmds(trace.cmds, a) = 0
       /\ CountCmds(trace.cmds, "draw", c) > 0

\* ---------------------------------------------------------------- pass claims

\* The positions of the commands op in cmds, in order.
Positions(cmds, op) ==
  SelectSeq([i \in 1..Len(cmds) |-> i], LAMBDA i : cmds[i].op = op)

\* The shader passes in the order they were registered in.
RegisteredShaderPasses(ms) ==
  SelectSeq([i \in 1..Len(ms) |-> i], LAMBDA i : ms[i].type = "ShaderPass")

\* The commands cmds of a frame, for the shader passes in their registration
\* order: one copy and one pass each, in that order, the copy right before the
\* pass, the pass drawn inside it, all after the end of the main pass.
CopiesThenPassesInOrder(cmds, passes) ==
  LET copies == Positions(cmds, "copyTextureToTexture")
      begins == Positions(cmds, "beginRenderPass")
      ends == Positions(cmds, "end")
  IN /\ Len(copies) = Len(passes)
     /\ Len(begins) = Len(passes) + 1
     /\ Len(ends) = Len(passes) + 1
     /\ \A k \in 1..Len(passes) :
          /\ cmds[copies[k]].mesh = passes[k]
          /\ ends[1] < copies[k]
          /\ begins[k + 1] = copies[k] + 1
          /\ \A i \in 1..Len(cmds) :
               (cmds[i].mesh = passes[k] /\ cmds[i].op \in {"setPipeline", "setBindGroup", "draw"})
                 => (begins[k + 1] < i /\ i < ends[k + 1])

\* C13: with N shader passes of equal render order and no ping pong plane, a
\* frame that runs to its end copies the swap chain texture N times and begins
\* N passes after the main one has ended, pass after pass in the order the
\* shader passes were registered in, each copy right before its pass.
C13_ShaderPassesInRegistrationOrder ==
  (FrameCompleted(trace) /\ stacks.unprojected.pingPongPlanes = <<>>)
    => CopiesThenPassesInOrder(trace.cmds, RegisteredShaderPasses(mesh))

\* C13 witness: a frame drew a mesh in the main pass, then two shader passes,
\* the one registered first before the other.
C13_Witness ==
  /\ FrameCompleted(trace)
  /\ Len(RegisteredShaderPasses(mesh)) = 2
  /\ \E m \in DOMAIN mesh : mesh[m].type = "Mesh" /\ CountCmds(trace.cmds, "draw", m) = 1
  /\ \A k \in 1..2 : CountCmds(trace.cmds, "draw", RegisteredShaderPasses(mesh)[k]) = 1
  /\ Positions(trace.cmds, "draw")[2] < Positions(trace.cmds, "draw")[3]
  /\ trace.cmds[Positions(trace.cmds, "draw")[2]].mesh = RegisteredShaderPasses(mesh)[1]

\* The position of the command that begins the main pass, the one after the
\* passes of the ping pong planes, and of the command that ends it.
MainPassBegin(cmds, st) ==
  Positions(cmds, "beginRenderPass")[Len(st.unprojected.pingPongPlanes) + 1]

MainPassEnd(cmds, st) == Positions(cmds, "end")[Len(st.unprojected.pingPongPlanes) + 1]

\* C14: in a frame, a mesh that has a render target is drawn before the main
\* pass of the primary surface begins, and not in the main pass.
C14_RenderTargetDrawnBeforeMainPass ==
  FrameCompleted(trace) =>
    \A i \in 1..Len(trace.cmds) :
      (trace.cmds[i].op = "draw" /\ mesh[trace.cmds[i].mesh].renderTarget # NoRenderTarget)
        => i < MainPassBegin(trace.cmds, stacks)

\* ---------------------------------------------------------------- context claims

\* C15: a mesh reports ready only while the buffers of its geometry and its
\* pipeline exist: not from the loss of the context until both have been
\* created again.
C15_ReadyOnlyWithBuffersAndPipeline ==
  \A m \in DOMAIN mesh :
    mesh[m].ready =>
      (mesh[m].buffers /\ pipelineEntries[materials[m].entry].pipeline # NullPipeline)

\* C16: a loss of the context and a restoration leave every stack of the
\* scene and the list of meshes of the renderer as they were, members and
\* order, and change nothing of a mesh but the buffers of its geometry.
C16_ContextLossKeepsStacks ==
  [][trace'.name \in {"loseContext", "restoreContext"} =>
       /\ stacks' = stacks
       /\ meshes' = meshes
       /\ DOMAIN mesh' = DOMAIN mesh
       /\ \A m \in DOMAIN mesh : [mesh'[m] EXCEPT !.buffers = mesh[m].buffers] = mesh[m]]_vars

\* C16 witness: the context has been restored after a loss that took the
\* buffers of a mesh that had been drawn, the scene holding two meshes of one
\* partition, a mesh of another and a shader pass.
C16_Witness ==
  /\ trace.name = "restoreContext"
  /\ \E m \in DOMAIN mesh : mesh[m].ready /\ ~mesh[m].buffers
  /\ \E proj \in Projections, kind \in Transparencies : Len(stacks[proj][kind]) >= 2
  /\ stacks.unprojected.shaderPasses # <<>>

\* ---------------------------------------------------------------- resource claims

\* The meshes the renderer holds: those constructed and not removed.
Live(m) == Occurrences(meshes, m) > 0

\* C17: removing a mesh destroys no texture that a mesh still held by the
\* renderer has among the textures of its material.
C17_SharedTextureNotDestroyed ==
  \A m \in DOMAIN mesh :
    Live(m) => \A i \in DOMAIN materials[m].textures : ~materials[m].textures[i].destroyed

\* A mesh that has been removed had the pipeline entry that mesh n has.
SharedWithRemoved(n) ==
  \E m \in DOMAIN mesh : ~Live(m) /\ materials[m].entry = materials[n].entry

\* C18: the removal of a mesh leaves every pipeline entry as it was and the
\* other meshes as ready as they were, and a frame rendered by a ready renderer
\* afterwards draws every mesh left that had the entry of a removed one, the
\* mesh being ready and the entry compiled.
C18_SharedEntrySurvivesRemoval ==
  [][/\ trace'.name = "remove" =>
          /\ pipelineEntries' = pipelineEntries
          /\ \A n \in DOMAIN mesh :
               Occurrences(meshes', n) > 0 => mesh'[n].ready = mesh[n].ready
     /\ (trace'.name = "render" /\ trace'.ready) =>
          \A n \in DOMAIN mesh :
            (Live(n) /\ SharedWithRemoved(n)) =>
              /\ CountCmds(trace'.cmds, "draw", n) > 0
              /\ mesh'[n].ready
              /\ PipelineEntryReady(pipelineEntries'[materials'[n].entry])]_vars

\* C18 witness: a frame has drawn a mesh whose pipeline entry is the one of a
\* mesh removed after it had been drawn with it.
C18_Witness ==
  /\ trace.name = "render"
  /\ \E m, n \in DOMAIN mesh :
       /\ ~Live(m) /\ mesh[m].ready
       /\ Live(n) /\ mesh[n].ready
       /\ materials[m].entry = materials[n].entry
       /\ PipelineEntryReady(pipelineEntries[materials[n].entry])
       /\ CountCmds(trace.cmds, "draw", n) > 0

\* Every texture of the sequence has its GPU texture and its sampler.
ResourcesSet(textures) ==
  \A i \in DOMAIN textures : textures[i].texture # "none" /\ textures[i].sampler

\* C19: a step in which the textures bind group of a material gets its device
\* bind group starts with every texture of the material having its GPU texture
\* and its sampler.
C19_NoBindGroupWithNullResource ==
  [][\A m \in DOMAIN materials :
       (~materials[m].texturesBindGroup.bindGroup /\ materials'[m].texturesBindGroup.bindGroup)
         => ResourcesSet(materials[m].textures)]_vars

\* C19 witness: a frame has been rendered in which a mesh whose texture has no
\* GPU texture went through its render and was left without a device bind
\* group, while the bind group of another mesh has been created.
C19_Witness ==
  /\ trace.name = "render"
  /\ \E m, n \in DOMAIN mesh :
       /\ Live(n) /\ mesh[n].ready
       /\ ~ResourcesSet(materials[n].textures)
       /\ ~materials[n].texturesBindGroup.bindGroup
       /\ Live(m) /\ materials[m].texturesBindGroup.bindGroup

\* C20: the textures bind group of a material with no texture, not created
\* yet, reports that it should be created.
C20_EmptyBindGroupCanBeCreated ==
  \A m \in DOMAIN mesh :
    (Live(m) /\ Len(materials[m].textures) = 0 /\ ~materials[m].texturesBindGroup.bindGroup)
      => shouldCreateBindGroup(materials[m].texturesBindGroup, materials[m].textures)

\* ---------------------------------------------------------------- sampler claims

\* C21: the device manager never holds two samplers with equal options.
C21_OneSamplerPerOptions ==
  \A i, j \in DOMAIN deviceManager.samplers :
    deviceManager.samplers[i].options = deviceManager.samplers[j].options => i = j

\* ---------------------------------------------------------------- render once claims

\* The callbacks and the task queues of a frame.
HookOps ==
  {"onBeforeCommandEncoderCreation", "onBeforeRender", "onBeforeRenderScene",
   "onAfterRender", "onAfterRenderScene", "onAfterCommandEncoderSubmission"}

\* C22: renderOnce leaves every stack of the scene and the meshes of the
\* renderer as they were, and runs none of the callbacks and task queues of a
\* frame.
C22_RenderOnceLeavesSceneAndHooks ==
  [][trace'.name = "renderOnce" =>
       /\ stacks' = stacks
       /\ meshes' = meshes
       /\ \A i \in 1..Len(trace'.cmds) : trace'.cmds[i].op \notin HookOps]_vars

\* C22 witness: renderOnce has drawn a mesh that is not rendered by the scene,
\* while the scene holds another mesh.
C22_Witness ==
  /\ trace.name = "renderOnce" /\ ~trace.threw
  /\ \E m \in DOMAIN mesh :
       /\ ~mesh[m].autoRender
       /\ CountCmds(trace.cmds, "draw", m) > 0
       /\ Stacked(stacks) \ {m} # {}

\* The first draw call among the commands, if any, comes after a pipeline
\* has been set.
FirstDrawHasPipeline(cmds) ==
  \A i \in 1..Len(cmds) :
    (cmds[i].op = "draw" /\ \A k \in 1..(i - 1) : cmds[k].op # "draw")
      => \E j \in 1..(i - 1) : cmds[j].op = "setPipeline"

\* C23: renderOnce resets the current pipeline of the pipeline manager before
\* anything else, and, when it runs to its end, again after its commands are
\* submitted, leaving the manager with no current pipeline; the frame that
\* follows sets a pipeline before its first draw call.
C23_RenderOnceResetsCurrentPipeline ==
  [][/\ trace'.name = "renderOnce" =>
          /\ trace'.cmds[1].op = "resetCurrentPipeline"
          /\ ~trace'.threw =>
               /\ trace'.cmds[Len(trace'.cmds)].op = "resetCurrentPipeline"
               /\ trace'.cmds[Len(trace'.cmds) - 1].op = "submit"
               /\ deviceManager'.currentPipelineIndex = 0
     /\ (trace.name = "renderOnce" /\ ~trace.threw /\ trace'.name = "render")
          => FirstDrawHasPipeline(trace'.cmds)]_vars

\* C23 witness: renderOnce ran to its end having set a pipeline and drawn a
\* mesh that the scene holds and the next frame will draw.
C23_Witness ==
  /\ trace.name = "renderOnce" /\ ~trace.threw
  /\ \E m \in Stacked(stacks) :
       CountCmds(trace.cmds, "setPipeline", m) > 0 /\ CountCmds(trace.cmds, "draw", m) > 0

\* ---------------------------------------------------------------- frame hook claims

\* The steps of a frame in the order GPUDeviceManager.render and
\* GPURenderer.render take them; "scene" stands for every command of
\* Scene.render.
FrameSteps ==
  <<"onBeforeCommandEncoderCreation", "onBeforeRender", "onBeforeRenderScene", "scene",
    "onAfterRender", "onAfterRenderScene", "submit", "onAfterCommandEncoderSubmission">>

\* The step of the frame a command belongs to.
StepOf(cmd) ==
  LET op == IF cmd.op = "resetCurrentPipeline" THEN "submit"
            ELSE IF cmd.op \in HookOps \cup {"submit"} THEN cmd.op ELSE "scene"
  IN CHOOSE k \in DOMAIN FrameSteps : FrameSteps[k] = op

\* C24: in a frame of a ready renderer the task queues and callbacks run in
\* the order before command encoder creation, before the scene, the scene,
\* after the scene, after the submission, none of them twice; in a frame that
\* runs to its end each of them runs exactly once.
C24_HooksInFixedOrder ==
  (trace.name = "render" /\ trace.ready) =>
    /\ \A i, j \in 1..Len(trace.cmds) :
         i < j => /\ StepOf(trace.cmds[i]) <= StepOf(trace.cmds[j])
                  /\ trace.cmds[i].op \in HookOps => trace.cmds[i].op # trace.cmds[j].op
    /\ ~trace.threw =>
         \A k \in DOMAIN FrameSteps : \E i \in 1..Len(trace.cmds) : StepOf(trace.cmds[i]) = k

\* C24 witness: a frame ran to its end with a mesh drawn and a shader pass
\* drawn after it.
C24_Witness ==
  /\ FrameCompleted(trace)
  /\ \E m, n \in DOMAIN mesh :
       /\ mesh[m].type = "Mesh" /\ mesh[n].type = "ShaderPass"
       /\ CountCmds(trace.cmds, "draw", m) > 0 /\ CountCmds(trace.cmds, "draw", n) > 0

\* ---------------------------------------------------------------- autoRender claims

\* C25: a mesh constructed with autoRender false is in no stack of the scene,
\* and no frame issues a draw call for it, whatever meshes are constructed
\* after it.
C25_NoAutoRenderNeverStacked ==
  \A m \in DOMAIN mesh :
    ~mesh[m].autoRender =>
      /\ m \notin Stacked(stacks)
      /\ trace.name = "render" => CountCmds(trace.cmds, "draw", m) = 0

\* ---------------------------------------------------------------- removal claims

\* The partitions of the scene: a projection and a list of it.
Partitions ==
  ({"unprojected"} \X {"opaque", "transparent", "pingPongPlanes", "shaderPasses"})
    \cup ({"projected"} \X {"opaque", "transparent"})

\* C26: when a mesh is removed from the scene, every partition holds the
\* other meshes it held, in the order it held them.
C26_RemovalKeepsOthers ==
  [][Len(meshes') < Len(meshes) =>
       \E m \in DOMAIN mesh :
         /\ meshes' = Without(meshes, m)
         /\ \A p \in Partitions :
              Without(stacks'[p[1]][p[2]], m) = Without(stacks[p[1]][p[2]], m)]_vars

\* C26 witness: a mesh has been removed from the partition its flags select,
\* which still holds two others that are not in the order of their
\* construction.
C26_Witness ==
  \E p \in Partitions, m \in DOMAIN mesh :
    LET stack == stacks[p[1]][p[2]]
    IN /\ p = <<ProjectionName(materials, m), TransparencyName(mesh, m)>>
       /\ Occurrences(meshes, m) = 0
       /\ Occurrences(stack, m) = 0
       /\ Len(stack) >= 2
       /\ stack[1] > stack[2]

\* ---------------------------------------------------------------- misuse claims

\* C27: setRenderer called with a value that is no renderer, and
\* setRenderTarget called with a value that is neither null nor a
\* RenderTarget, report a warning and change nothing of the meshes, their
\* materials, the meshes of the renderer and the stacks of the scene.
C27_InvalidValueIsNoOp ==
  [][\A m \in DOMAIN mesh :
       /\ \A value \in RenderTargetValues \ ({NoRenderTarget} \cup RenderTargets) :
            SetRenderTarget(m, value) =>
              /\ Issued(trace'.cmds, "throwWarning")
              /\ UNCHANGED <<mesh, materials, meshes, stacks>>
       /\ \A value \in {v \in RendererValues : RendererOf(v) \notin RendererTypes} :
            SetRenderer(m, value) =>
              /\ Issued(trace'.cmds, "throwWarning")
              /\ UNCHANGED <<mesh, materials, meshes, stacks>>]_vars

\* ---------------------------------------------------------------- DOM mesh claims

\* C28: whenever the onReady callback of a DOM mesh is called, its material
\* and its geometry are ready and every source of its element is loaded.
C28_OnReadyOnlyWhenAllReady ==
  \A i \in 1..Len(trace.cmds) :
    trace.cmds[i].op = "onReady" =>
      /\ trace.cmds[i].materialReady
      /\ trace.cmds[i].geometryReady
      /\ mesh[trace.cmds[i].mesh].autoloadSources =>
           trace.cmds[i].sourcesLoaded = mesh[trace.cmds[i].mesh].loaderSize

\* C29: a mesh that has been removed, from the scene or altogether, is in no
\* partition of the scene and not among the meshes of the renderer, and no
\* frame issues a draw call for it, whatever meshes are constructed after.
C29_RemovedMeshIsGone ==
  \A m \in DOMAIN mesh :
    ~Live(m) =>
      /\ m \notin Stacked(stacks)
      /\ trace.name = "render" => CountCmds(trace.cmds, "draw", m) = 0

\* ---------------------------------------------------------------- pipeline binding claims

\* The pipeline entry of mesh m is the one set on the pass in which command i
\* is issued: since the pass began a setPipeline was issued for a mesh that
\* holds the same entry, and none after it for another entry.
PipelineSetOnPass(cmds, i, m) ==
  \E j \in 1..(i - 1) :
    /\ cmds[j].op = "setPipeline"
    /\ materials[cmds[j].mesh].entry = materials[m].entry
    /\ \A k \in (j + 1)..(i - 1) :
         /\ cmds[k].op # "beginRenderPass"
         /\ cmds[k].op = "setPipeline" => materials[cmds[k].mesh].entry = materials[m].entry

MeshPartitions == {"unprojected", "projected"} \X {"opaque", "transparent"}

\* Mesh a comes before mesh b by their fields alone: the higher render order,
\* then for transparent meshes the higher depth, then the lower creation
\* index, the mesh number being the creation index.
ComesBefore(a, b) ==
  \/ a = b
  \/ mesh[a].renderOrder > mesh[b].renderOrder
  \/ /\ mesh[a].renderOrder = mesh[b].renderOrder
     /\ mesh[a].transparent
     /\ mesh[a].z > mesh[b].z
  \/ /\ mesh[a].renderOrder = mesh[b].renderOrder
     /\ mesh[a].transparent => mesh[a].z = mesh[b].z
     /\ a < b

\* C34: the order of the members of a partition is fixed by their creation
\* indices, depths and render orders alone: whatever the order in which the
\* meshes were added and whatever pipeline entries they hold, of two members
\* the one that comes before by these fields is first.
C34_OrderFixedByFields ==
  \A p \in MeshPartitions :
    \A i, j \in 1..Len(stacks[p[1]][p[2]]) :
      i < j => ComesBefore(stacks[p[1]][p[2]][i], stacks[p[1]][p[2]][j])

\* C34 witness: a partition holds three meshes that were added in another
\* order than they were constructed, the first of them sharing its pipeline
\* entry with the last and not with the one between them.
C34_Witness ==
  \E p \in MeshPartitions :
    LET similar == stacks[p[1]][p[2]]
    IN /\ Len(similar) = 3
       /\ similar[1] # similar[2] /\ similar[2] # similar[3] /\ similar[1] # similar[3]
       /\ materials[similar[1]].entry = materials[similar[3]].entry
       /\ materials[similar[1]].entry # materials[similar[2]].entry
       /\ \E i, j \in 1..Len(meshes) : i < j /\ meshes[i] > meshes[j]

\* ---------------------------------------------------------------- bind group index claims

\* The group index of a member of material.bindGroups.
IndexOfBindGroup(mat, ref) ==
  IF ref.kind = "textures" THEN mat.texturesBindGroup.index
  ELSE mat.inputsBindGroups[ref.at].index

\* C35: the bind groups a render material has created carry the indices
\* 1, 2, ... in the order of material.bindGroups when the material uses the
\* projection, group 0 being the camera bind group, and 0, 1, ... otherwise,
\* hence distinct and contiguous, whichever bind group could be created
\* first.
C35_BindGroupIndexIsPosition ==
  \A m \in DOMAIN materials :
    \A k \in 1..Len(materials[m].bindGroups) :
      IndexOfBindGroup(materials[m], materials[m].bindGroups[k])
        = (k - 1) + (IF materials[m].rendering.useProjection THEN 1 ELSE 0)

\* C35 witness: a material that uses the projection has created its inputs
\* bind groups in one frame and its textures bind group in a later one, so
\* that the textures bind group comes last.
C35_Witness ==
  \E m \in DOMAIN materials :
    /\ materials[m].rendering.useProjection
    /\ Len(materials[m].bindGroups) = 3
    /\ materials[m].bindGroups[3] = TexturesBindGroupRef
    /\ materials[m].texturesBindGroup.bindGroup

\* ---------------------------------------------------------------- pipeline compilation claims

\* C31: a pipeline entry whose status is compiled has a pipeline: the status
\* does not become compiled when the creation of the pipeline was skipped,
\* for want of shader modules or of a device, or failed.
C31_CompiledHasPipeline ==
  \A e \in DOMAIN pipelineEntries :
    pipelineEntries[e].status.compiled => pipelineEntries[e].pipeline # NullPipeline

\* C32: the pipeline of a compiled entry was built from the rendering options
\* the entry has: a change of an option made by setRenderingOptions while an
\* asynchronous compilation is in flight is not lost.
C32_CompiledFromCurrentOptions ==
  \A e \in DOMAIN pipelineEntries :
    (pipelineEntries[e].status.compiled /\ pipelineEntries[e].pipeline # NullPipeline) =>
      pipelineEntries[e].descriptor = <<pipelineEntries[e].options>>

MainPass(cmds, st) ==
  SubSeq(cmds, MainPassBegin(cmds, st) + 1, MainPassEnd(cmds, st) - 1)

\* The objects drawn by cmds, in the order of the draw calls.
DrawnBy(cmds) ==
  [k \in 1..Len(Positions(cmds, "draw")) |-> cmds[Positions(cmds, "draw")[k]].mesh]

\* The members of a stack that a frame draws: the visible ones whose material
\* has a pipeline.
DrawnOf(stack) ==
  SelectSeq(stack, LAMBDA m : mesh[m].visible
                                /\ pipelineEntries[materials[m].entry].pipeline # NullPipeline)

\* C37: a frame that runs to its end opens one pass for each ping pong plane,
\* one for each shader pass and exactly one main pass; the main pass draws
\* the members of the unprojected opaque, unprojected transparent, projected
\* opaque and projected transparent stacks in this order, no mesh is drawn in
\* another pass, and the camera bind group is set at most once, after the
\* draws of the unprojected stacks and before those of the projected ones.
C37_MainPassOrder ==
  FrameCompleted(trace) =>
    /\ Len(Positions(trace.cmds, "beginRenderPass"))
         = Len(stacks.unprojected.pingPongPlanes) + 1 + Len(stacks.unprojected.shaderPasses)
    /\ DrawnBy(MainPass(trace.cmds, stacks))
         = DrawnOf(stacks.unprojected.opaque \o stacks.unprojected.transparent)
             \o DrawnOf(stacks.projected.opaque \o stacks.projected.transparent)
    /\ \A i \in 1..Len(trace.cmds) :
         (trace.cmds[i].op = "draw" /\ mesh[trace.cmds[i].mesh].type = "Mesh")
           => (MainPassBegin(trace.cmds, stacks) < i /\ i < MainPassEnd(trace.cmds, stacks))
    /\ CountCmds(trace.cmds, "setBindGroup", 0) <= 1
    /\ \A i \in 1..Len(MainPass(trace.cmds, stacks)) :
         MainPass(trace.cmds, stacks)[i] = Cmd("setBindGroup", 0) =>
           DrawnBy(SubSeq(MainPass(trace.cmds, stacks), 1, i))
             = DrawnOf(stacks.unprojected.opaque \o stacks.unprojected.transparent)

\* C37 witness: a frame ran to its end with the camera bind group set and a
\* mesh of each of the four stacks drawn in the main pass.
C37_Witness ==
  /\ FrameCompleted(trace)
  /\ CountCmds(trace.cmds, "setBindGroup", 0) = 1
  /\ \A p \in MeshPartitions : DrawnOf(stacks[p[1]][p[2]]) # <<>>
  /\ Len(DrawnBy(MainPass(trace.cmds, stacks))) >= 4

\* C38: in a frame that runs to its end, the k-th ping pong plane is drawn in
\* the k-th pass of the frame and in no other, nothing else is drawn in that
\* pass, the pass ends before the main pass begins, and the command that
\* follows its end is the copy into the render texture of that plane.
C38_PingPongPassThenCopy ==
  FrameCompleted(trace) =>
    \A k \in 1..Len(stacks.unprojected.pingPongPlanes) :
      LET plane == stacks.unprojected.pingPongPlanes[k]
          begin == Positions(trace.cmds, "beginRenderPass")[k]
          end == Positions(trace.cmds, "end")[k]
      IN /\ begin < end
         /\ end < MainPassBegin(trace.cmds, stacks)
         /\ \A i \in 1..Len(trace.cmds) :
              trace.cmds[i].op \in {"setPipeline", "draw"} =>
                (trace.cmds[i].mesh = plane <=> (begin < i /\ i < end))
         /\ trace.cmds[end + 1] = Cmd("copyTextureToTexture", plane)

\* C38 witness: a frame ran to its end and drew two ping pong planes and a
\* mesh.
C38_Witness ==
  /\ FrameCompleted(trace)
  /\ Len(stacks.unprojected.pingPongPlanes) = 2
  /\ \A k \in 1..2 : CountCmds(trace.cmds, "draw", stacks.unprojected.pingPongPlanes[k]) = 1
  /\ \E m \in DOMAIN mesh : mesh[m].type = "Mesh" /\ CountCmds(trace.cmds, "draw", m) = 1

\* ---------------------------------------------------------------- rendering options specification

MaxOptionsMeshes == 2

\* Meshes are constructed, removed from the scene and added again, their
\* rendering options are set, pipelines compile and frames are rendered.
OptionsNext ==
  \/ \E p \in PipelineMeshParams : CreateMesh(p, MaxOptionsMeshes)
  \/ \E m \in DOMAIN mesh : RemoveFromScene(m)
  \/ \E m \in DOMAIN mesh : AddToScene(m)
  \/ \E m \in DOMAIN mesh, sampleCount \in SampleCounts : SetRenderingOptions(m, sampleCount)
  \/ SetRendererReady
  \/ \E e \in DOMAIN pipelineEntries : ResolveCompile(e)
  \/ RenderFrame(NoThrower)

SpecOptions == Init /\ [][OptionsNext]_vars

\* ---------------------------------------------------------------- shader patching

\* GPUShaderStage flags as sets of stages: the bitwise or of two flags is the
\* union of the sets, and two values are equal when the sets are.
VertexStage == {"vertex"}

FragmentStage == {"fragment"}

ComputeStage == {"compute"}

\* The visibilities a binding has when the shaders are patched: one stage, the
\* vertex and fragment stages the texture bind group gives a binding that has
\* none, or the three stages.
Visibilities ==
  {VertexStage, FragmentStage, VertexStage \cup FragmentStage,
   VertexStage \cup FragmentStage \cup ComputeStage}

\* The wgslStructFragment of a binding that declares no struct.
NoStruct == ""

\* The WGSL fragments of a binding: a sampler, a uniform buffer with a struct,
\* and a uniform buffer that declares its two elements one by one.
BindingFragments ==
  {[wgslGroupFragment |-> <<"var sampler: sampler;">>, wgslStructFragment |-> NoStruct],
   [wgslGroupFragment |-> <<"var<uniform> uniforms: Uniforms;">>,
    wgslStructFragment |-> "struct Uniforms"],
   [wgslGroupFragment |-> <<"var<uniform> a: f32;", "var<uniform> b: f32;">>,
    wgslStructFragment |-> NoStruct]}

\* A line of a shader head that is no declaration of a binding, and the
\* declaration of a group fragment with its group and binding indices.
Line(text) == [declaration |-> FALSE, group |-> 0, binding |-> 0, text |-> text]

Declaration(group, binding, text) ==
  [declaration |-> TRUE, group |-> group, binding |-> binding, text |-> text]

\* head.indexOf(text) !== -1, the lines and the fragments being the units of
\* text.
indexOf(head, text) == \E i \in 1..Len(head) : head[i].text = text

\* The shared chunks of ShaderChunks.ts.
ShaderChunks == [vertex |-> <<"get_uv_cover">>, fragment |-> <<"get_uv_cover">>]

ProjectedShaderChunks == [vertex |-> <<"get_output_position">>, fragment |-> <<>>]

\* for (const chunk in chunks) head = chunk + head
RECURSIVE prependChunks(_, _)
prependChunks(head, chunks) ==
  IF chunks = <<>> THEN head
  ELSE prependChunks(<<Line(Head(chunks))>> \o head, Tail(chunks))

\* The same for the full head, which takes a chunk it does not have yet.
RECURSIVE prependNewChunks(_, _)
prependNewChunks(head, chunks) ==
  IF chunks = <<>> THEN head
  ELSE prependNewChunks(IF indexOf(head, Head(chunks)) THEN head
                        ELSE <<Line(Head(chunks))>> \o head, Tail(chunks))

\* The entries patchShaders pushes for the bindings of one bind group from
\* bindIndex on: one for each group fragment of each binding.
RECURSIVE bindGroupFragments(_, _, _)
bindGroupFragments(bindGroup, bindings, bindIndex) ==
  IF bindings = <<>> THEN <<>>
  ELSE LET binding == Head(bindings)
           fragments == Len(binding.wgslGroupFragment)
       IN [i \in 1..fragments |->
             [groupIndex |-> bindGroup.index,
              visibility |-> binding.visibility,
              bindIndex |-> bindIndex + i - 1,
              wgslStructFragment |-> binding.wgslStructFragment,
              wgslGroupFragment |-> binding.wgslGroupFragment[i]]]
            \o bindGroupFragments(bindGroup, Tail(bindings), bindIndex + fragments)

RECURSIVE groupsBindings(_)
groupsBindings(bindGroups) ==
  IF bindGroups = <<>> THEN <<>>
  ELSE bindGroupFragments(Head(bindGroups), Head(bindGroups).bindings, 0)
         \o groupsBindings(Tail(bindGroups))

\* One head after a group binding: its struct goes in front unless the head
\* has it, its declaration at the end unless the head has the fragment.
declareGroupBinding(head, groupBinding) ==
  LET declare(h) ==
        IF indexOf(h, groupBinding.wgslGroupFragment) THEN h
        ELSE Append(h, Declaration(groupBinding.groupIndex, groupBinding.bindIndex,
                                   groupBinding.wgslGroupFragment))
  IN declare(IF groupBinding.wgslStructFragment # NoStruct
                  /\ ~indexOf(head, groupBinding.wgslStructFragment)
               THEN <<Line(groupBinding.wgslStructFragment)>> \o head
               ELSE head)

\* groupsBindings.forEach of patchShaders: the vertex head takes the bindings
\* whose visibility is VERTEX or the three stages, the fragment head those
\* whose visibility is FRAGMENT or the three stages, the full head all.
RECURSIVE declareGroupsBindings(_, _)
declareGroupsBindings(heads, bindings) ==
  IF bindings = <<>> THEN heads
  ELSE LET groupBinding == Head(bindings)
           allStages == VertexStage \cup FragmentStage \cup ComputeStage
       IN declareGroupsBindings(
            [vertex |-> IF groupBinding.visibility = VertexStage
                             \/ groupBinding.visibility = allStages
                          THEN declareGroupBinding(heads.vertex, groupBinding)
                          ELSE heads.vertex,
             fragment |-> IF groupBinding.visibility = FragmentStage
                               \/ groupBinding.visibility = allStages
                            THEN declareGroupBinding(heads.fragment, groupBinding)
                            ELSE heads.fragment,
             full |-> declareGroupBinding(heads.full, groupBinding)],
            Tail(bindings))

\* The shaders of a new RenderPipelineEntry: empty heads and codes.
NewShaders ==
  [vertex |-> [head |-> <<>>, code |-> <<>>],
   fragment |-> [head |-> <<>>, code |-> <<>>],
   full |-> [head |-> <<>>, code |-> <<>>]]

\* RenderPipelineEntry.patchShaders: the chunks, the declarations of the
\* bindings of the bind groups and the attributes in front of the code of
\* each stage.
patchShaders(entry) ==
  LET chunks == [vertex |-> prependChunks(<<>>, ShaderChunks.vertex),
                 fragment |-> prependChunks(<<>>, ShaderChunks.fragment),
                 full |-> prependNewChunks(prependChunks(<<>>, ShaderChunks.vertex),
                                           ShaderChunks.fragment)]
      projected(h) ==
        IF ~entry.options.useProjection THEN h
        ELSE [vertex |-> prependChunks(h.vertex, ProjectedShaderChunks.vertex),
              fragment |-> prependChunks(h.fragment, ProjectedShaderChunks.fragment),
              full |-> prependNewChunks(prependChunks(h.full, ProjectedShaderChunks.vertex),
                                        ProjectedShaderChunks.fragment)]
      attributes(h) ==
        [vertex |-> <<Line(entry.attributes.wgslStructFragment)>> \o h.vertex,
         fragment |-> h.fragment,
         full |-> <<Line(entry.attributes.wgslStructFragment)>> \o h.full]
      code(h) ==
        [vertex |-> [head |-> h.vertex,
                     code |-> Append(h.vertex, Line(entry.options.shaders.vertex.code))],
         fragment |-> [head |-> h.fragment,
                       code |-> Append(h.fragment, Line(entry.options.shaders.fragment.code))],
         full |-> [head |-> h.full,
                   code |-> IF entry.options.shaders.vertex.entryPoint
                                 # entry.options.shaders.fragment.entryPoint
                               /\ entry.options.shaders.vertex.code
                                    = entry.options.shaders.fragment.code
                              THEN Append(h.full, Line(entry.options.shaders.vertex.code))
                              ELSE h.full \o <<Line(entry.options.shaders.vertex.code),
                                               Line(entry.options.shaders.fragment.code)>>]]
  IN code(attributes(declareGroupsBindings(projected(chunks),
                                           groupsBindings(entry.bindGroups))))

\* ---------------------------------------------------------------- shader patching specification

MaxShaderBindGroups == 2

MaxShaderBindings == 2

\* The sequences of one to n elements of S.
SeqsUpTo(S, n) == UNION {[1..k -> S] : k \in 1..n}

\* The bindings of a bind group.
ShaderBindings ==
  {[visibility |-> v, wgslGroupFragment |-> f.wgslGroupFragment,
    wgslStructFragment |-> f.wgslStructFragment] :
     v \in Visibilities, f \in BindingFragments}

\* The bind groups of an entry: the index of each is its position.
ShaderBindGroups ==
  {[k \in 1..Len(groups) |-> [index |-> k - 1, bindings |-> groups[k]]] :
     groups \in SeqsUpTo(SeqsUpTo(ShaderBindings, MaxShaderBindings), MaxShaderBindGroups)}

\* The shaders given to an entry: two codes, or one code with two entry
\* points.
ShaderOptions ==
  {[vertex |-> [code |-> "vs", entryPoint |-> "main"],
    fragment |-> [code |-> "fs", entryPoint |-> "main"]],
   [vertex |-> [code |-> "shader", entryPoint |-> "vs"],
    fragment |-> [code |-> "shader", entryPoint |-> "fs"]]}

\* An entry whose properties are set and whose shaders are not patched yet.
InitShaders ==
  /\ mesh = <<>>
  /\ materials = <<>>
  /\ \E bindGroups \in ShaderBindGroups, useProjection \in BOOLEAN, shaders \in ShaderOptions :
       pipelineEntries =
         <<[options |-> [useProjection |-> useProjection, shaders |-> shaders],
            attributes |-> [wgslStructFragment |-> "struct Attributes"],
            bindGroups |-> bindGroups,
            shaders |-> NewShaders]>>
  /\ meshes = <<>>
  /\ stacks = EmptyStacks
  /\ rendererReady = FALSE
  /\ trace = NoCall
  /\ watch = <<>>
  /\ deviceManager = [samplers |-> <<>>, currentPipelineIndex |-> 0, device |-> FALSE]

\* RenderPipelineEntry.createShaders, up to the creation of the modules.
CreateShaders(e) ==
  /\ pipelineEntries[e].shaders = NewShaders
  /\ pipelineEntries' = [pipelineEntries EXCEPT ![e].shaders = patchShaders(pipelineEntries[e])]
  /\ trace' = [NoCall EXCEPT !.name = "createShaders"]
  /\ UNCHANGED <<deviceManager, mesh, materials, meshes, stacks, rendererReady, watch>>

ShadersNext == \E e \in DOMAIN pipelineEntries : CreateShaders(e)

SpecShaders == InitShaders /\ [][ShadersNext]_vars

\* ---------------------------------------------------------------- shader patching claims

\* C39: once the shaders of an entry are patched, for every binding of every
\* bind group of the entry and each of the vertex and fragment stages that the
\* visibility of the binding includes, the code of the stage has a declaration
\* of a fragment of the binding whose group index is the index of the bind
\* group and whose binding index is the position of the binding in the group.
C39_EveryBindingDeclared ==
  \A e \in DOMAIN pipelineEntries :
    pipelineEntries[e].shaders # NewShaders =>
      \A g \in 1..Len(pipelineEntries[e].bindGroups) :
        \A b \in 1..Len(pipelineEntries[e].bindGroups[g].bindings) :
          \A stage \in {"vertex", "fragment"} :
            stage \in pipelineEntries[e].bindGroups[g].bindings[b].visibility =>
              \E i \in 1..Len(pipelineEntries[e].shaders[stage].code) :
                LET line == pipelineEntries[e].shaders[stage].code[i]
                    binding == pipelineEntries[e].bindGroups[g].bindings[b]
                IN /\ line.declaration
                   /\ line.group = pipelineEntries[e].bindGroups[g].index
                   /\ line.binding = b - 1
                   /\ \E f \in 1..Len(binding.wgslGroupFragment) :
                        line.text = binding.wgslGroupFragment[f]

\* ---------------------------------------------------------------- rendering options claims

\* The call flushed the pipeline entry from setRenderingOptions.
FlushedByOptions(tr) ==
  \E i \in 1..Len(tr.cmds) :
    tr.cmds[i].op = "flushPipelineEntry" /\ tr.cmds[i].from = "setRenderingOptions"

====
